---- MODULE Spec2Model ----
(***************************************************************************)
(* FireTools calculation engine: the detector layout planner              *)
(* (utils/detection, calcularEspaciamientoDetectores).                     *)
(*                                                                         *)
(* JavaScript numbers are modelled by exact values:                        *)
(*   - a finite number is a rational in lowest terms,                      *)
(*       [clase |-> "finito", num |-> n, den |-> d]  with d > 0;           *)
(*   - NaN and +Infinity (0/0 and x/-0 in the code) are values of their    *)
(*     own;                                                                *)
(*   - Math.sqrt(c) of an integer coverage c is kept symbolic (its         *)
(*     radicand), and every operation the code applies to it (a division   *)
(*     followed by Math.ceil, a comparison against 1.05 times it, a        *)
(*     rounding to 2 decimals) is decided exactly on squares.              *)
(* Counts (Math.ceil results) are integers; JavaScript's -0 is the integer *)
(* 0, and the one place where the sign of a zero matters (a division by    *)
(* it) is decided from the sign of the dividend, see dividirPorCuenta.     *)
(* On the inputs explored here the exact values are the values the IEEE    *)
(* doubles of the code produce: no quotient falls within a rounding error  *)
(* of an integer, or on a rounding tie that the double does not represent  *)
(* exactly.  Sides that do fall there (a whole number of rounded maximum   *)
(* spacings, or a side near the smallest positive double) are explored by  *)
(* SpecDoble, on calcularEspaciamientoDetectores written over the doubles  *)
(* themselves.                                                             *)
(***************************************************************************)
EXTENDS Integers, Sequences, FiniteSets, Bags, TLC

VARIABLES
    tabla,          \* utils/detection: the TipoDetector array the engine indexes
    tipoDetector,   \* EspaciamientoDetectores: selected index into the table
    altura,         \* EspaciamientoDetectores: ceiling height field, as parseFloat reads it
    largo,          \* EspaciamientoDetectores: room length field, as parseFloat reads it
    ancho,          \* EspaciamientoDetectores: room width field, as parseFloat reads it
    resultado,      \* EspaciamientoDetectores: the last ResultadoDetectores, or NULO
    tablaCoeficientes,  \* utils/hydraulics: the coeficientesC array
    tablaFactores,      \* utils/hydraulics: the factoresK array
    perdidaCarga,       \* PerdidaCarga: caudal, diametro, longitud, coeficiente, resultado
    caudalRociadores,   \* CaudalRociadores: factorK, presion, resultado
    llamadas,           \* the invocation each caller of the engine is in, or has left
    historial,          \* every invocation that has returned, with what it returned
    normaViewer,        \* NormaViewer: norma, seccionActiva, tablaTecnicaActiva, galeriaActiva
    searchBar           \* SearchBar: query, resultados, mostrarResultados, focus, timers

vars == <<tabla, tipoDetector, altura, largo, ancho, resultado,
          tablaCoeficientes, tablaFactores, perdidaCarga, caudalRociadores,
          llamadas, historial, normaViewer, searchBar>>

\* the state of the two components outside the calculators
paginas == <<normaViewer, searchBar>>

-----------------------------------------------------------------------------
(* Bounds of the explored inputs.                                          *)

\* heights are k/2 m for k in 1..MaxAlturaMedios
MaxAlturaMedios == 41
\* room sides are k/PasosPorMetro m
PasosPorMetro == 2
\* room length from -MinLargoM m to MaxLargoM m
MinLargoM == 5
MaxLargoM == 10
\* room width from -MinAnchoM m to MaxAnchoM m
MinAnchoM == 1
MaxAnchoM == 5

-----------------------------------------------------------------------------
(* Numbers.                                                                *)

Abs(x) == IF x < 0 THEN -x ELSE x

RECURSIVE MCD(_, _)
MCD(a, b) == IF b = 0 THEN a ELSE MCD(b, a % b)

\* the finite number n/d (d > 0), in lowest terms
Num(n, d) ==
    LET g == MCD(Abs(n), d)
    IN  [clase |-> "finito", num |-> n \div g, den |-> d \div g]

Entero(n) == Num(n, 1)
NaN == [clase |-> "NaN", num |-> 0, den |-> 1]
Infinito == [clase |-> "Infinity", num |-> 1, den |-> 1]

EsFinito(x) == x.clase = "finito"

\* x > y on finite numbers
Mayor(x, y) == x.num * y.den > y.num * x.den
\* x <= y on finite numbers
MenorIgual(x, y) == x.num * y.den <= y.num * x.den

\* x * y on finite numbers
Mul(x, y) == Num(x.num * y.num, x.den * y.den)

\* x / 2 (NaN / 2 = NaN, Infinity / 2 = Infinity)
Mitad(x) == IF EsFinito(x) THEN Num(x.num, 2 * x.den) ELSE x

\* Math.ceil(n / d), d > 0
Techo(n, d) == -((-n) \div d)

\* Math.floor(x * 100) / 100
Truncar2(x) ==
    IF EsFinito(x)
    THEN Num((100 * x.num) \div x.den, 100)
    ELSE x

\* Math.round(x * 100) / 100: Math.round rounds halves towards +Infinity
Redondear2(x) ==
    IF EsFinito(x)
    THEN Num((200 * x.num + x.den) \div (2 * x.den), 100)
    ELSE x

\* the greatest r >= 0 with r * r <= n, searched in lo..hi
RECURSIVE RaizEnteraEntre(_, _, _)
RaizEnteraEntre(n, lo, hi) ==
    IF lo >= hi THEN lo
    ELSE LET mid == (lo + hi + 1) \div 2
         IN  IF mid * mid <= n
             THEN RaizEnteraEntre(n, mid, hi)
             ELSE RaizEnteraEntre(n, lo, mid - 1)

\* (46340 is the greatest integer whose square is a 32-bit integer)
RaizEntera(n) == RaizEnteraEntre(n, 0, IF n < 46340 THEN n ELSE 46340)

\* faulty variant: Math.floor(Math.sqrt(c) * 100) / 100
Truncar2Raiz(c) == Num(RaizEntera(10000 * c), 100)

\* Math.round(Math.sqrt(c) * 100) / 100: the integer k nearest to 100 sqrt(c),
\* i.e. the greatest k with (2k - 1)^2 <= 40000 c
Redondear2Raiz(c) == Num((RaizEntera(40000 * c) + 1) \div 2, 100)

-----------------------------------------------------------------------------
(* Numbers of the hydraulic formulas.                                      *)
(*                                                                         *)
(* Math.pow with a fractional exponent, Math.sqrt and Math.PI have no      *)
(* exact rational value, so the numbers of utils/hydraulics are decimals   *)
(* of 20 fractional digits: a natural number a, kept as its limbs in base  *)
(* Base with the least significant first and no high zero limb (<<>> is    *)
(* 0), stands for a / Base^Fraccion.  Sums, integer scalings and the       *)
(* decimal literals of the code are exact; products, quotients, roots,     *)
(* logarithms and exponentials are truncated at the 20th digit, where the  *)
(* code's doubles are rounded at their 53rd bit.  The formulas take only   *)
(* non-negative operands on the inputs their contract admits.              *)

Base == 10000
Fraccion == 5

Max2(m, n) == IF m > n THEN m ELSE n
Min2(m, n) == IF m < n THEN m ELSE n

\* the greatest element of a non-empty set of integers
Maximo(S) == CHOOSE m \in S : \A n \in S : n <= m

\* the sum of the values of a function of naturals
Sumar(f) ==
    LET positivos == { i \in DOMAIN f : f[i] > 0 }
    IN  IF positivos = {} THEN 0
        ELSE BagCardinality([i \in positivos |-> f[i]])

\* y, once the values xs are computed, in their order: the statements of the
\* code run one after the other, and so do the steps of the arithmetic
Tras(xs, y) == CASE xs = xs -> y

\* F of the value v, computed once and before F's body: const v = ...
Sea(v, F(_)) == CASE v = v -> F(v)

\* the sequence a function on 1..n is, every element evaluated once
Fijar(f) == <<>> \o f

\* limb i of a, 0 beyond its length
Limbo(a, i) == IF i >= 1 /\ i <= Len(a) THEN a[i] ELSE 0

\* a without its high zero limbs
Podar(a) ==
    LET altos == { i \in 1..Len(a) : a[i] # 0 }
    IN  IF altos = {} THEN <<>> ELSE SubSeq(a, 1, Maximo(altos))

\* one pass of carries: every column keeps its value below Base and takes
\* what the column under it gives up
Pase(s) ==
    Fijar([i \in 1..(Len(s) + 1) |->
               (Limbo(s, i) % Base) + (Limbo(s, i - 1) \div Base)])

\* the limbs of the number whose columns s are below 2 Base: column i takes a
\* carry when a column under it overflows and every column between them is
\* Base - 1
Propagar(s) ==
    LET entra(i) == \E j \in 1..(i - 1) :
                        /\ s[j] >= Base
                        /\ \A k \in (j + 1)..(i - 1) : s[k] = Base - 1
    IN  Podar(Fijar([i \in 1..(Len(s) + 1) |->
                         (Limbo(s, i) + (IF entra(i) THEN 1 ELSE 0)) % Base]))

\* the limbs of the number whose columns s are naturals below 2^31: three
\* passes bring the columns below Base + 1
Acarrear(s) ==
    Sea(Pase(s), LAMBDA p1 : Sea(Pase(p1), LAMBDA p2 : Sea(Pase(p2), Propagar)))

\* a + b
SumaN(a, b) ==
    Propagar(Fijar([i \in 1..Max2(Len(a), Len(b)) |-> Limbo(a, i) + Limbo(b, i)]))

\* a - b for a >= b: column i lends when a column under it is short and every
\* column between them is even
RestaN(a, b) ==
    LET d == Fijar([i \in 1..Len(a) |-> a[i] - Limbo(b, i)])
        presta(i) == \E j \in 1..(i - 1) :
                         /\ d[j] < 0
                         /\ \A k \in (j + 1)..(i - 1) : d[k] = 0
    IN  Podar(Fijar([i \in 1..Len(a) |->
                         (d[i] - (IF presta(i) THEN 1 ELSE 0) + Base) % Base]))

\* a * k for an integer 0 <= k <= 200000
ProdEntero(a, k) == Acarrear(Fijar([i \in 1..Len(a) |-> a[i] * k]))

\* a * b
ProdN(a, b) ==
    IF Len(a) = 0 \/ Len(b) = 0 THEN <<>>
    ELSE Acarrear(Fijar([j \in 1..(Len(a) + Len(b) - 1) |->
                            Sumar([i \in Max2(1, j + 1 - Len(b))..Min2(j, Len(a)) |->
                                      a[i] * b[j - i + 1]])]))

\* -1, 0 or 1 as a < b, a = b or a > b
CompararN(a, b) ==
    IF Len(a) < Len(b) THEN -1
    ELSE IF Len(a) > Len(b) THEN 1
    ELSE LET distintos == { i \in 1..Len(a) : a[i] # b[i] }
         IN  IF distintos = {} THEN 0
             ELSE IF a[Maximo(distintos)] < b[Maximo(distintos)] THEN -1
             ELSE 1

\* the state after n turns from the state e: paso(c, e) is the state after a
\* turn, and a state that has e.fin set stays as it is
RECURSIVE Avanzar(_, _, _, _)
Avanzar(paso(_, _), c, e, n) ==
    Tras(<<e>>, IF n = 1 THEN paso(c, e)
                ELSE Avanzar(paso, c, Avanzar(paso, c, e, n \div 2), n - (n \div 2)))

\* a loop of at most 32 turns
Iterar(paso(_, _), c, e0) == CHOOSE e \in {Avanzar(paso, c, e0, 32)} : e.fin

\* a turn of the short division of c.a by c.k, from the high limb downwards
pasoDivEntero(c, e) ==
    IF e.fin THEN e
    ELSE IF e.i = 0 THEN [e EXCEPT !.fin = TRUE]
    ELSE LET d == e.resto * Base + c.a[e.i]
         IN  [i |-> e.i - 1, resto |-> d % c.k, q |-> <<d \div c.k>> \o e.q,
              fin |-> FALSE]

\* floor(a / k) for an integer 1 <= k <= 200000
DivEntero(a, k) ==
    Podar(Iterar(pasoDivEntero, [a |-> a, k |-> k],
                 [i |-> Len(a), resto |-> 0, q |-> <<>>, fin |-> FALSE]).q)

\* floor(r / b) for r < b * Base and a high limb of b of at least Base / 2:
\* the quotient of the two high limbs of r by the high limb of b is at most 2
\* above it
CifraCociente(r, b) ==
    LET n == Len(b)
        r2 == Limbo(r, n + 1) * Base + Limbo(r, n)
        t == Min2(Base - 1, r2 \div b[n])
    IN  IF CompararN(ProdEntero(b, t), r) <= 0 THEN t
        ELSE IF CompararN(ProdEntero(b, t - 1), r) <= 0 THEN t - 1
        ELSE t - 2

\* a turn of the long division of c.a by c.b, from the high limb downwards
pasoDivN(c, e) ==
    IF e.fin THEN e
    ELSE IF e.i = 0 THEN [e EXCEPT !.fin = TRUE]
    ELSE Sea(Podar(<<c.a[e.i]>> \o e.r), LAMBDA r1 :
         Sea(CifraCociente(r1, c.b), LAMBDA t :
         Sea(ProdEntero(c.b, t), LAMBDA producto :
             [i |-> e.i - 1, r |-> RestaN(r1, producto), q |-> <<t>> \o e.q,
              fin |-> FALSE])))

\* floor(a / b), b > 0 (long division, both scaled to a high limb of b of at
\* least Base / 2)
DivN(a, b) ==
    Tras(<<a, b>>,
         Sea(ProdEntero(a, Base \div (b[Len(b)] + 1)), LAMBDA af :
         Sea(ProdEntero(b, Base \div (b[Len(b)] + 1)), LAMBDA bf :
             Podar(Iterar(pasoDivN, [a |-> af, b |-> bf],
                          [i |-> Len(af), r |-> <<>>, q |-> <<>>, fin |-> FALSE]).q))))

\* a turn of Newton's iteration y <- floor((y + floor(n / y)) / 2), which
\* decreases from a start above the root until it reaches floor(sqrt(n))
pasoNewton(n, e) ==
    IF e.fin THEN e
    ELSE Sea(DivN(n, e.y), LAMBDA c :
         Sea(DivEntero(SumaN(e.y, c), 2), LAMBDA y2 :
             IF CompararN(y2, e.y) >= 0 THEN [e EXCEPT !.fin = TRUE]
             ELSE [y |-> y2, fin |-> FALSE]))

\* floor(sqrt(n)), the iteration started above the root of the high limb
RaizN(n) ==
    IF Len(n) = 0 THEN <<>>
    ELSE LET m == (Len(n) - 1) \div 2
             alto == (RaizEntera(n[Len(n)]) + 1)
                         * (IF Len(n) % 2 = 0 THEN 100 ELSE 1)
         IN  Iterar(pasoNewton, n,
                    [y |-> Acarrear(Fijar([i \in 1..(m + 1) |->
                                              IF i = m + 1 THEN alto ELSE 0])),
                     fin |-> FALSE]).y

\* the decimal 1
Uno == Fijar([i \in 1..(Fraccion + 1) |-> IF i = Fraccion + 1 THEN 1 ELSE 0])

\* the decimal n / d of two integers n >= 0, d > 0: an integer, a decimal
\* literal of the code, or a field as parseFloat reads it
Decimal(n, d) == DivEntero(ProdEntero(Uno, n), d)

\* x * y
MulD(x, y) ==
    Tras(<<x, y>>,
         Sea(ProdN(x, y), LAMBDA p :
             IF Len(p) <= Fraccion THEN <<>> ELSE SubSeq(p, Fraccion + 1, Len(p))))

\* x / y, y > 0
DivD(x, y) ==
    Tras(<<x, y>>,
         IF Len(x) = 0 THEN <<>> ELSE DivN([i \in 1..Fraccion |-> 0] \o x, y))

\* Math.sqrt(x)
RaizD(x) ==
    IF Len(x) = 0 THEN <<>>
    ELSE RaizN([i \in 1..Fraccion |-> 0] \o x)

\* Math.PI
PI == <<3846, 7932, 3589, 9265, 1415, 3>>

\* x * 2^k for k >= 0, in factors of at most 2^17
RECURSIVE Doblar(_, _)
Doblar(x, k) ==
    Tras(<<x>>, IF k <= 17 THEN ProdEntero(x, 2^k)
                ELSE Doblar(ProdEntero(x, 2^17), k - 17))

\* x / 2^k for k >= 0, in divisors of at most 2^17
RECURSIVE Mediar(_, _)
Mediar(x, k) ==
    Tras(<<x>>, IF k <= 17 THEN DivEntero(x, 2^k)
                ELSE Mediar(DivEntero(x, 2^17), k - 17))

\* a turn of the series z + z^3 / 3 + z^5 / 5 + ..., e.pot the next power of
\* z and e.impar its exponent, up to the term that no longer changes the sum
pasoAtanh(z2, e) ==
    IF e.fin THEN e
    ELSE Sea(DivEntero(e.pot, e.impar), LAMBDA termino :
         Sea(SumaN(e.suma, termino), LAMBDA nueva :
             IF nueva = e.suma THEN [e EXCEPT !.fin = TRUE]
             ELSE [pot |-> MulD(e.pot, z2), impar |-> e.impar + 2,
                   suma |-> nueva, fin |-> FALSE]))

\* atanh(z) for 0 <= z <= 1/3
Atanh(z) ==
    Tras(<<z>>,
         Sea(MulD(z, z), LAMBDA z2 :
             Iterar(pasoAtanh, z2,
                    [pot |-> z, impar |-> 1, suma |-> <<>>, fin |-> FALSE]).suma))

\* ln 2 = 2 atanh(1/3)
Ln2 == ProdEntero(Atanh(DivEntero(Uno, 3)), 2)

\* ln(m) for 1 <= m < 2: 2 atanh((m - 1) / (m + 1))
LnMantisa(m) ==
    Sea(DivD(RestaN(m, Uno), SumaN(m, Uno)), LAMBDA z :
    Sea(Atanh(z), LAMBDA a : ProdEntero(a, 2)))

\* x * 2^-k
Escalar(x, k) == IF k >= 0 THEN Mediar(x, k) ELSE Doblar(x, -k)

\* the binary exponent of a limb t, 1 <= t < Base: 2^b <= t < 2^(b + 1)
ExponenteLimbo(t) == CHOOSE b \in 0..13 : 2^b <= t /\ t < 2^(b + 1)

\* 1 <= m < 2
EsMantisa(m) ==
    Tras(<<m>>, /\ CompararN(m, Uno) >= 0
                /\ CompararN(m, ProdEntero(Uno, 2)) < 0)

\* x = m * 2^k with 1 <= m < 2, for x > 0; k is found next to the exponent of
\* the leading limb, each limb below it worth log2(10000) = 13.2877.. more
Normalizar2(x) ==
    Tras(<<x>>,
         Sea(((Len(x) - 1 - Fraccion) * 132877) \div 10000
                 + ExponenteLimbo(x[Len(x)]), LAMBDA k0 :
         Sea(CHOOSE j \in (k0 - 1)..(k0 + 2) : EsMantisa(Escalar(x, j)), LAMBDA k :
             [m |-> Escalar(x, k), k |-> k])))

\* ln(x) for x > 0, as a sign and a magnitude: k ln 2 + ln(m)
Ln(x) ==
    Sea(Normalizar2(x), LAMBDA n :
    Sea(LnMantisa(n.m), LAMBDA lm :
        IF n.k >= 0
        THEN [neg |-> FALSE, mag |-> SumaN(ProdEntero(Ln2, n.k), lm)]
        ELSE [neg |-> TRUE, mag |-> RestaN(ProdEntero(Ln2, -(n.k)), lm)]))

\* a turn of the series 1 + r + r^2 / 2! + ..., e.t the next term and e.n its
\* index, up to the term that no longer changes the sum
pasoExp(r, e) ==
    IF e.fin THEN e
    ELSE Sea(SumaN(e.suma, e.t), LAMBDA nueva :
             IF nueva = e.suma THEN [e EXCEPT !.fin = TRUE]
             ELSE Sea(MulD(e.t, r), LAMBDA potencia :
                      [t |-> DivEntero(potencia, e.n + 1), n |-> e.n + 1,
                       suma |-> nueva, fin |-> FALSE]))

\* exp(r) for 0 <= r <= ln 2
SerieExp(r) ==
    Tras(<<r>>,
         Iterar(pasoExp, r, [t |-> Uno, n |-> 0, suma |-> <<>>, fin |-> FALSE]).suma)

\* the integer a natural below 2^31 is
AEntero(a) == Limbo(a, 1) + Base * (Limbo(a, 2) + Base * Limbo(a, 3))

\* exp(s) for a signed s = (+/-)(k ln 2 + r), 0 <= r < ln 2:
\* 2^k exp(r), or 2^-(k+1) exp(ln 2 - r)
Exp(s) ==
    Tras(<<s>>,
         Sea(AEntero(DivN(s.mag, Ln2)), LAMBDA k :
         Sea(RestaN(s.mag, ProdEntero(Ln2, k)), LAMBDA r :
         Sea(SerieExp(IF s.neg THEN RestaN(Ln2, r) ELSE r), LAMBDA e :
             IF s.neg THEN Mediar(e, k + 1) ELSE Doblar(e, k)))))

\* Math.pow(x, y) for x >= 0 and y > 0: exp(y ln x), and 0 for x = 0
Pow(x, y) ==
    IF Len(x) = 0 THEN <<>>
    ELSE Sea(Ln(x), LAMBDA l :
         Sea(MulD(l.mag, y), LAMBDA m : Exp([neg |-> l.neg, mag |-> m])))

\* Math.round(x): floor(x + 1/2), an integer
RedondearD(x) ==
    Tras(<<x>>,
         Sea(SumaN(x, DivEntero(Uno, 2)), LAMBDA y :
             IF Len(y) <= Fraccion THEN 0
             ELSE AEntero(SubSeq(y, Fraccion + 1, Len(y)))))

\* faulty variant: the integer part of the rounded value lost
RedondearDecimalesSinParteEntera(x, potencia) ==
    Num(RedondearD(ProdEntero(x, potencia)) % potencia, potencia)

\* Math.round(x * 10^d) / 10^d as the finite number it is, potencia = 10^d
RedondearDecimales(x, potencia) == Num(RedondearD(ProdEntero(x, potencia)), potencia)

-----------------------------------------------------------------------------
(* IEEE-754 doubles.                                                       *)
(*                                                                         *)
(* Where the last bit of a product, a quotient or a root decides a count,  *)
(* the numbers of utils/detection are the doubles themselves: m 2^e with m *)
(* a natural below 2^53 kept in limbs, at least 2^52 unless e = -1074 (a   *)
(* subnormal), and 0 as m = <<>>.  Every operation returns the double      *)
(* nearest to the exact result, the one with the even significand at a     *)
(* tie.  The operands are non-negative and far under the largest double.   *)

\* the double m 2^e
Doble(m, e) == [clase |-> "doble", m |-> m, e |-> e]

\* +0
Cero == Doble(<<>>, 0)

EsCero(x) == x.clase = "doble" /\ Len(x.m) = 0

\* 2^k for k >= 0, by squaring
RECURSIVE DosAlCuadrado(_)
DosAlCuadrado(k) ==
    IF k <= 13 THEN <<2^k>>
    ELSE Sea(DosAlCuadrado(k \div 2), LAMBDA h :
             IF k % 2 = 0 THEN ProdN(h, h) ELSE ProdEntero(ProdN(h, h), 2))

\* the powers 2^0 .. 2^255, computed once
Potencias == Fijar([i \in 1..256 |-> DosAlCuadrado(i - 1)])

\* 2^k for k >= 0
Dos(k) == IF k < 256 THEN Potencias[k + 1] ELSE DosAlCuadrado(k)

\* a 2^k for k >= 0
PorDos(a, k) == IF k = 0 THEN a ELSE ProdN(a, Dos(k))

\* 10^p for p >= 0
Diez(p) == [i \in 1..(p \div 4) |-> 0] \o <<10^(p % 4)>>

\* floor(log2(a)) for a natural a > 0: the bits of the high limb over the
\* 13.2877 bits of every limb under it, or one or two more
Log2N(a) ==
    Sea((((Len(a) - 1) * 132877) \div 10000)
            + Maximo({ j \in 0..13 : 2^j <= a[Len(a)] }), LAMBDA bajo :
        CHOOSE k \in bajo..(bajo + 2) :
            /\ CompararN(Dos(k), a) <= 0
            /\ CompararN(a, Dos(k + 1)) < 0)

\* floor(log2(n / d)) for naturals n, d > 0
Log2Q(n, d) ==
    Sea(Log2N(n) - Log2N(d), LAMBDA b :
        IF CompararN(PorDos(n, Max2(0, -b)), PorDos(d, Max2(0, b))) >= 0
        THEN b ELSE b - 1)

\* the integer nearest to n / d, the even one of the two at a tie
CocienteAlPar(n, d) ==
    Sea(DivN(n, d), LAMBDA q :
    Sea(ProdN(q, d), LAMBDA qd :
    Sea(RestaN(n, qd), LAMBDA resto :
    Sea(ProdEntero(resto, 2), LAMBDA doble :
    Sea(CompararN(doble, d), LAMBDA c :
        IF c > 0 \/ (c = 0 /\ Limbo(q, 1) % 2 = 1) THEN SumaN(q, <<1>>) ELSE q)))))

\* the double nearest to (n / d) 2^k for naturals n, d > 0: 53 bits from the
\* leading one, fewer under 2^-1022, and 0 under 2^-1075; a significand that
\* rounds up to 2^53 is the double 2^52 2^(e + 1)
RECURSIVE Redondear53(_, _, _)
Redondear53(n, d, k) ==
    Sea(Log2Q(n, d) + k, LAMBDA alto :
        IF alto < -1075 THEN Cero
        ELSE Sea(Max2(alto - 52, -1074), LAMBDA e :
             Sea(PorDos(n, Max2(0, k - e)), LAMBDA dividendo :
             Sea(PorDos(d, Max2(0, e - k)), LAMBDA divisor :
             Sea(CocienteAlPar(dividendo, divisor), LAMBDA m :
                 IF Len(m) = 0 THEN Cero
                 ELSE IF CompararN(m, Dos(53)) = 0
                 THEN Redondear53(Dos(52), <<1>>, e + 1)
                 ELSE Doble(m, e))))))

\* a numeric literal of the code, or a field as parseFloat reads it: the
\* double nearest to digitos / 10^decimales
DeDecimal(digitos, decimales) ==
    IF Len(digitos) = 0 THEN Cero
    ELSE Sea(Diez(decimales), LAMBDA potencia : Redondear53(digitos, potencia, 0))

\* a count 0 <= n < 2^31 as a double: its bits shifted up to the 53rd
DeEntero(n) ==
    IF n = 0 THEN Cero
    ELSE Sea(Maximo({ j \in 0..30 : 2^j <= n }), LAMBDA alto :
             Doble(PorDos(Acarrear(<<n>>), 52 - alto), alto - 52))

\* x * y
MulDoble(x, y) ==
    IF EsCero(x) \/ EsCero(y) THEN Cero
    ELSE Sea(ProdN(x.m, y.m), LAMBDA p : Redondear53(p, <<1>>, x.e + y.e))

\* x / y for y > 0
DivDoble(x, y) ==
    IF EsCero(x) THEN Cero ELSE Redondear53(x.m, y.m, x.e - y.e)

\* Math.sqrt(c) of an integer c > 0: floor(sqrt(c) 2^60) has at least 61
\* bits, and a root that is not exact rounds as that floor and a half does
RaizDoble(c) ==
    Sea(Acarrear(<<c>>), LAMBDA cn :
    Sea(PorDos(cn, 120), LAMBDA n :
    Sea(RaizN(n), LAMBDA r :
    Sea(ProdN(r, r), LAMBDA r2 :
    Sea(ProdEntero(r, 2), LAMBDA doble :
    Sea(SumaN(doble, IF CompararN(r2, n) = 0 THEN <<>> ELSE <<1>>), LAMBDA impar :
        Redondear53(impar, <<1>>, -61)))))))

\* floor(log2(x)) of a double x > 0
Magnitud(x) == Log2N(x.m) + x.e

\* x > y for doubles x, y > 0 of magnitudes mx and my
MayorDeMagnitud(x, y, mx, my) ==
    IF mx # my THEN mx > my
    ELSE Sea(PorDos(x.m, x.e - Min2(x.e, y.e)), LAMBDA a :
         Sea(PorDos(y.m, y.e - Min2(x.e, y.e)), LAMBDA b : CompararN(a, b) > 0))

\* x > y
MayorDoble(x, y) ==
    CASE x.clase = "Infinity" -> y.clase # "Infinity"
      [] y.clase = "Infinity" -> FALSE
      [] EsCero(x) -> FALSE
      [] EsCero(y) -> TRUE
      [] OTHER ->
            Sea(Magnitud(x), LAMBDA mx :
            Sea(Magnitud(y), LAMBDA my : MayorDeMagnitud(x, y, mx, my)))

\* Math.ceil(x), an integer below 2^31
TechoDoble(x) ==
    IF EsCero(x) THEN 0
    ELSE IF x.e >= 0 THEN Sea(PorDos(x.m, x.e), AEntero)
    ELSE IF -x.e >= 53 THEN 1
    ELSE Sea(Dos(-x.e), LAMBDA unidad :
         Sea(RestaN(unidad, <<1>>), LAMBDA casi :
         Sea(SumaN(x.m, casi), LAMBDA arriba :
         Sea(DivN(arriba, unidad), AEntero))))

\* floor(x * potencia + 1/2), a natural in limbs: Math.round(x) with potencia = 1,
\* and the digits toFixed(2) prints with potencia = 100 and x exact
RedondeoEntero(x, potencia) ==
    IF EsCero(x) THEN <<>>
    ELSE IF x.e >= 0
    THEN Sea(ProdEntero(x.m, potencia), LAMBDA p : PorDos(p, x.e))
    ELSE IF -x.e > 60 THEN <<>>
    ELSE Sea(ProdEntero(x.m, 2 * potencia), LAMBDA p :
         Sea(SumaN(p, Dos(-x.e)), LAMBDA arriba :
         Sea(Dos(1 - x.e), LAMBDA unidad : DivN(arriba, unidad))))

\* Math.round(x * 100) / 100
Redondear2Doble(x) ==
    IF x.clase # "doble" THEN x
    ELSE Sea(DeEntero(100), LAMBDA cien :
         Sea(MulDoble(x, cien), LAMBDA y :
         Sea(RedondeoEntero(y, 1), LAMBDA redondo : DeDecimal(redondo, 2))))

-----------------------------------------------------------------------------
(* The reference table.                                                    *)

\* faulty variant: the thermal class A1 admitted up to 9 m, where its coverage is 0
tiposDetectoresA1Hasta9 ==
    << [nombre |-> "Detector optico de humos (puntual)",
        coberturaMaxM2 |-> <<80, 80, 60, 40>>, alturaMaxM |-> Entero(12)],
       [nombre |-> "Detector ionico de humos",
        coberturaMaxM2 |-> <<80, 80, 60, 40>>, alturaMaxM |-> Entero(12)],
       [nombre |-> "Detector termico (clase A1)",
        coberturaMaxM2 |-> <<30, 20, 0, 0>>, alturaMaxM |-> Entero(9)],
       [nombre |-> "Detector termico (clase A2)",
        coberturaMaxM2 |-> <<20, 15, 0, 0>>, alturaMaxM |-> Entero(6)],
       [nombre |-> "Detector termovelocimetrico",
        coberturaMaxM2 |-> <<30, 20, 0, 0>>, alturaMaxM |-> Num(75, 10)],
       [nombre |-> "Detector de llama (IR/UV)",
        coberturaMaxM2 |-> <<200, 200, 200, 200>>, alturaMaxM |-> Entero(20)] >>

\* faulty variant: the coverage of the smoke detectors rising again in the
\* band of 8 to 10 m
tiposDetectoresCoberturaCreciente ==
    << [nombre |-> "Detector optico de humos (puntual)",
        coberturaMaxM2 |-> <<80, 60, 80, 40>>, alturaMaxM |-> Entero(12)],
       [nombre |-> "Detector ionico de humos",
        coberturaMaxM2 |-> <<80, 60, 80, 40>>, alturaMaxM |-> Entero(12)],
       [nombre |-> "Detector termico (clase A1)",
        coberturaMaxM2 |-> <<30, 20, 0, 0>>, alturaMaxM |-> Num(75, 10)],
       [nombre |-> "Detector termico (clase A2)",
        coberturaMaxM2 |-> <<20, 15, 0, 0>>, alturaMaxM |-> Entero(6)],
       [nombre |-> "Detector termovelocimetrico",
        coberturaMaxM2 |-> <<30, 20, 0, 0>>, alturaMaxM |-> Num(75, 10)],
       [nombre |-> "Detector de llama (IR/UV)",
        coberturaMaxM2 |-> <<200, 200, 200, 200>>, alturaMaxM |-> Entero(20)] >>

tiposDetectores ==
    << [nombre |-> "Detector optico de humos (puntual)",
        coberturaMaxM2 |-> <<80, 80, 60, 40>>, alturaMaxM |-> Entero(12)],
       [nombre |-> "Detector ionico de humos",
        coberturaMaxM2 |-> <<80, 80, 60, 40>>, alturaMaxM |-> Entero(12)],
       [nombre |-> "Detector termico (clase A1)",
        coberturaMaxM2 |-> <<30, 20, 0, 0>>, alturaMaxM |-> Num(75, 10)],
       [nombre |-> "Detector termico (clase A2)",
        coberturaMaxM2 |-> <<20, 15, 0, 0>>, alturaMaxM |-> Entero(6)],
       [nombre |-> "Detector termovelocimetrico",
        coberturaMaxM2 |-> <<30, 20, 0, 0>>, alturaMaxM |-> Num(75, 10)],
       [nombre |-> "Detector de llama (IR/UV)",
        coberturaMaxM2 |-> <<200, 200, 200, 200>>, alturaMaxM |-> Entero(20)] >>

\* TipoDetector records the shipped table does not hold: classes whose
\* coverage is 0 at a band their alturaMaxM still admits.
tiposAlternativos ==
    << [nombre |-> "Clase sin cobertura en la banda 1",
        coberturaMaxM2 |-> <<30, 0, 0, 0>>, alturaMaxM |-> Num(75, 10)],
       [nombre |-> "Clase de cobertura cuadrada",
        coberturaMaxM2 |-> <<25, 16, 0, 0>>, alturaMaxM |-> Entero(12)] >>

-----------------------------------------------------------------------------
(* calcularEspaciamientoDetectores.                                        *)

\* faulty variant: the band with open upper breakpoints (< in place of <=)
obtenerRangoAlturaAbierto(alturaM) ==
    IF Mayor(Entero(6), alturaM) THEN 0
    ELSE IF Mayor(Entero(8), alturaM) THEN 1
    ELSE IF Mayor(Entero(10), alturaM) THEN 2
    ELSE 3

\* the band of a ceiling height, 0..3
obtenerRangoAltura(alturaM) ==
    IF MenorIgual(alturaM, Entero(6)) THEN 0
    ELSE IF MenorIgual(alturaM, Entero(8)) THEN 1
    ELSE IF MenorIgual(alturaM, Entero(10)) THEN 2
    ELSE 3

\* faulty variant: the height check with its operands swapped
superaAlturaMaximaInvertido(detector, alturaM) ==
    Mayor(detector.alturaMaxM, alturaM)

\* faulty variant: the height check with >= in place of >
superaAlturaMaximaIncluyente(detector, alturaM) ==
    ~Mayor(detector.alturaMaxM, alturaM)

\* the height check: alturaM > detector.alturaMaxM
superaAlturaMaxima(detector, alturaM) == Mayor(alturaM, detector.alturaMaxM)

\* detector.coberturaMaxM2[rangoAltura] (the model's sequences start at 1)
coberturaEnRango(detector, rangoAltura) == detector.coberturaMaxM2[rangoAltura + 1]

\* a message or a warning: a template and the values interpolated in it
Texto(plantilla, args) == [plantilla |-> plantilla, args |-> args]

mensajeAlturaMaxima(detector) ==
    Texto("La altura maxima para este detector es ${}m", <<detector.alturaMaxM>>)

mensajeNoAdecuado ==
    Texto("Este tipo de detector no es adecuado para esta altura", <<>>)

mensajeVacio == Texto("", <<>>)

\* faulty variant: the height rejection with the area rounded as in the accepted path
rechazoAlturaMaximaAreaRedondeada(detector, areaM2) ==
    [areaM2 |-> Redondear2(areaM2),
     numDetectoresMinimo |-> 0,
     coberturaMaximaM2 |-> 0,
     espaciamientoMaximoM |-> Entero(0),
     numDetectoresReal |-> 0,
     detectoresLargo |-> 0,
     detectoresAncho |-> 0,
     espaciamientoLargoM |-> Entero(0),
     espaciamientoAnchoM |-> Entero(0),
     distanciaParedLargoM |-> Entero(0),
     distanciaParedAnchoM |-> Entero(0),
     valido |-> FALSE,
     mensaje |-> mensajeAlturaMaxima(detector),
     advertencias |-> <<>>]

\* the object returned when the height check fails
rechazoAlturaMaxima(detector, areaM2) ==
    [areaM2 |-> areaM2,
     numDetectoresMinimo |-> 0,
     coberturaMaximaM2 |-> 0,
     espaciamientoMaximoM |-> Entero(0),
     numDetectoresReal |-> 0,
     detectoresLargo |-> 0,
     detectoresAncho |-> 0,
     espaciamientoLargoM |-> Entero(0),
     espaciamientoAnchoM |-> Entero(0),
     distanciaParedLargoM |-> Entero(0),
     distanciaParedAnchoM |-> Entero(0),
     valido |-> FALSE,
     mensaje |-> mensajeAlturaMaxima(detector),
     advertencias |-> <<>>]

\* faulty variant: the zero-coverage rejection with the flag of the accepted path
rechazoNoAdecuadoValido(areaM2) ==
    [areaM2 |-> areaM2,
     numDetectoresMinimo |-> 0,
     coberturaMaximaM2 |-> 0,
     espaciamientoMaximoM |-> Entero(0),
     numDetectoresReal |-> 0,
     detectoresLargo |-> 0,
     detectoresAncho |-> 0,
     espaciamientoLargoM |-> Entero(0),
     espaciamientoAnchoM |-> Entero(0),
     distanciaParedLargoM |-> Entero(0),
     distanciaParedAnchoM |-> Entero(0),
     valido |-> TRUE,
     mensaje |-> mensajeVacio,
     advertencias |-> <<>>]

\* the object returned when the coverage of the band is 0
rechazoNoAdecuado(areaM2) ==
    [areaM2 |-> areaM2,
     numDetectoresMinimo |-> 0,
     coberturaMaximaM2 |-> 0,
     espaciamientoMaximoM |-> Entero(0),
     numDetectoresReal |-> 0,
     detectoresLargo |-> 0,
     detectoresAncho |-> 0,
     espaciamientoLargoM |-> Entero(0),
     espaciamientoAnchoM |-> Entero(0),
     distanciaParedLargoM |-> Entero(0),
     distanciaParedAnchoM |-> Entero(0),
     valido |-> FALSE,
     mensaje |-> mensajeNoAdecuado,
     advertencias |-> <<>>]

\* faulty variant: the minimum computed from the area already rounded to 2 decimals
numDetectoresMinimoDeAreaRedondeada(areaM2, coberturaMaximaM2) ==
    Techo(Redondear2(areaM2).num, Redondear2(areaM2).den * coberturaMaximaM2)

\* Math.ceil(areaM2 / coberturaMaximaM2)
numDetectoresMinimoDe(areaM2, coberturaMaximaM2) ==
    Techo(areaM2.num, areaM2.den * coberturaMaximaM2)

\* the least n >= desde with n * sqrt(c) >= p / q   (p > 0)
RECURSIVE MenorCuenta(_, _, _, _)
MenorCuenta(p, q, c, desde) ==
    IF desde * desde * c * q * q >= p * p THEN desde
    ELSE MenorCuenta(p, q, c, desde + 1)

\* the greatest m >= desde with m * sqrt(c) <= p / q   (p >= 0)
RECURSIVE MayorCuenta(_, _, _, _)
MayorCuenta(p, q, c, desde) ==
    IF (desde + 1) * (desde + 1) * c * q * q > p * p THEN desde
    ELSE MayorCuenta(p, q, c, desde + 1)

\* faulty variant: Math.round in place of Math.ceil: the least n >= desde with
\* (n + 1/2) * sqrt(c) > p / q   (p > 0)
RECURSIVE CuentaRedondeada(_, _, _, _)
CuentaRedondeada(p, q, c, desde) ==
    IF (2 * desde + 1) * (2 * desde + 1) * c * q * q > 4 * p * p THEN desde
    ELSE CuentaRedondeada(p, q, c, desde + 1)

detectoresEnEjeRedondeo(ladoM, coberturaMaximaM2) ==
    IF ladoM.num > 0 THEN CuentaRedondeada(ladoM.num, ladoM.den, coberturaMaximaM2, 0)
    ELSE IF ladoM.num = 0 THEN 0
    ELSE -CuentaRedondeada(-ladoM.num, ladoM.den, coberturaMaximaM2, 0)

\* faulty variant: Math.floor in place of Math.ceil: a side that is not a whole
\* number of maximum spacings gets one detector too few
detectoresEnEjeSuelo(ladoM, coberturaMaximaM2) ==
    IF ladoM.num > 0 THEN MayorCuenta(ladoM.num, ladoM.den, coberturaMaximaM2, 0)
    ELSE IF ladoM.num = 0 THEN 0
    ELSE -MenorCuenta(-ladoM.num, ladoM.den, coberturaMaximaM2, 1)

\* faulty variant: Math.floor(x) + 1 in place of Math.ceil(x): one detector too many
\* when the side is a whole number of maximum spacings
detectoresEnEjeSueloMasUno(ladoM, coberturaMaximaM2) ==
    IF ladoM.num > 0 THEN MayorCuenta(ladoM.num, ladoM.den, coberturaMaximaM2, 0) + 1
    ELSE IF ladoM.num = 0 THEN 1
    ELSE -MenorCuenta(-ladoM.num, ladoM.den, coberturaMaximaM2, 1) + 1

\* Math.ceil(ladoM / Math.sqrt(coberturaMaximaM2)); for a negative side the
\* ceiling is minus the floor of the absolute quotient (-0 when that is 0)
detectoresEnEje(ladoM, coberturaMaximaM2) ==
    IF ladoM.num > 0 THEN MenorCuenta(ladoM.num, ladoM.den, coberturaMaximaM2, 1)
    ELSE IF ladoM.num = 0 THEN 0
    ELSE -MayorCuenta(-ladoM.num, ladoM.den, coberturaMaximaM2, 0)

\* ladoM / detectores, detectores being Math.ceil(ladoM / sqrt(c)): a zero
\* count is +0 for a zero side (0 / 0 = NaN) and -0 for a negative side
\* (negative / -0 = +Infinity)
dividirPorCuenta(ladoM, detectores) ==
    IF detectores # 0 THEN
        IF detectores > 0 THEN Num(ladoM.num, ladoM.den * detectores)
        ELSE Num(-ladoM.num, ladoM.den * (-detectores))
    ELSE IF ladoM.num = 0 THEN NaN
    ELSE Infinito

\* faulty variant: the wall offset taken from the spacing already rounded to 2 decimals
distanciaParedDesdeRedondeado(espaciamientoM) == Mitad(Redondear2(espaciamientoM))

\* espaciamientoM / 2
distanciaPared(espaciamientoM) == Mitad(espaciamientoM)

\* faulty variant: the tolerance check without the 5% margin
superaToleranciaSinMargen(espaciamientoM, coberturaMaximaM2) ==
    CASE espaciamientoM.clase = "NaN" -> FALSE
      [] espaciamientoM.clase = "Infinity" -> TRUE
      [] OTHER ->
            /\ espaciamientoM.num > 0
            /\ espaciamientoM.num * espaciamientoM.num
                 > coberturaMaximaM2 * espaciamientoM.den * espaciamientoM.den

\* espaciamientoM > Math.sqrt(coberturaMaximaM2) * 1.05
\* (NaN compares false, +Infinity true; 1.05 = 21/20)
superaTolerancia(espaciamientoM, coberturaMaximaM2) ==
    CASE espaciamientoM.clase = "NaN" -> FALSE
      [] espaciamientoM.clase = "Infinity" -> TRUE
      [] OTHER ->
            /\ espaciamientoM.num > 0
            /\ 400 * espaciamientoM.num * espaciamientoM.num
                 > 441 * coberturaMaximaM2 * espaciamientoM.den * espaciamientoM.den

\* the warning of an axis; toFixed(2) prints the nearest 2-decimal value
advertenciaEje(eje, espaciamientoM, coberturaMaximaM2) ==
    Texto(IF eje = "largo"
          THEN "Espaciamiento en largo (${}m) supera el maximo (${}m)"
          ELSE "Espaciamiento en ancho (${}m) supera el maximo (${}m)",
          <<Redondear2(espaciamientoM), Redondear2Raiz(coberturaMaximaM2)>>)

\* the warning list after the two tolerance checks
advertenciasDe(espaciamientoLargoM, espaciamientoAnchoM, coberturaMaximaM2) ==
    (IF superaTolerancia(espaciamientoLargoM, coberturaMaximaM2)
     THEN <<advertenciaEje("largo", espaciamientoLargoM, coberturaMaximaM2)>>
     ELSE <<>>)
    \o
    (IF superaTolerancia(espaciamientoAnchoM, coberturaMaximaM2)
     THEN <<advertenciaEje("ancho", espaciamientoAnchoM, coberturaMaximaM2)>>
     ELSE <<>>)

\* faulty variant: the count along the width taken from the length
resultadoAceptadoAnchoDesdeLargo(areaM2, coberturaMaximaM2, largoM, anchoM) ==
    LET numDetectoresMinimo == numDetectoresMinimoDe(areaM2, coberturaMaximaM2)
        detectoresLargo == detectoresEnEje(largoM, coberturaMaximaM2)
        detectoresAncho == detectoresEnEje(largoM, coberturaMaximaM2)
        numDetectoresReal == detectoresLargo * detectoresAncho
        espaciamientoLargoM == dividirPorCuenta(largoM, detectoresLargo)
        espaciamientoAnchoM == dividirPorCuenta(anchoM, detectoresAncho)
        distanciaParedLargoM == distanciaPared(espaciamientoLargoM)
        distanciaParedAnchoM == distanciaPared(espaciamientoAnchoM)
    IN  [areaM2 |-> Redondear2(areaM2),
         numDetectoresMinimo |-> numDetectoresMinimo,
         coberturaMaximaM2 |-> coberturaMaximaM2,
         espaciamientoMaximoM |-> Redondear2Raiz(coberturaMaximaM2),
         numDetectoresReal |-> numDetectoresReal,
         detectoresLargo |-> detectoresLargo,
         detectoresAncho |-> detectoresAncho,
         espaciamientoLargoM |-> Redondear2(espaciamientoLargoM),
         espaciamientoAnchoM |-> Redondear2(espaciamientoAnchoM),
         distanciaParedLargoM |-> Redondear2(distanciaParedLargoM),
         distanciaParedAnchoM |-> Redondear2(distanciaParedAnchoM),
         valido |-> TRUE,
         mensaje |-> mensajeVacio,
         advertencias |-> advertenciasDe(espaciamientoLargoM, espaciamientoAnchoM,
                                         coberturaMaximaM2)]

\* the accepted path: the grid for a nonzero coverage
resultadoAceptado(areaM2, coberturaMaximaM2, largoM, anchoM) ==
    LET numDetectoresMinimo == numDetectoresMinimoDe(areaM2, coberturaMaximaM2)
        detectoresLargo == detectoresEnEje(largoM, coberturaMaximaM2)
        detectoresAncho == detectoresEnEje(anchoM, coberturaMaximaM2)
        numDetectoresReal == detectoresLargo * detectoresAncho
        espaciamientoLargoM == dividirPorCuenta(largoM, detectoresLargo)
        espaciamientoAnchoM == dividirPorCuenta(anchoM, detectoresAncho)
        distanciaParedLargoM == distanciaPared(espaciamientoLargoM)
        distanciaParedAnchoM == distanciaPared(espaciamientoAnchoM)
    IN  [areaM2 |-> Redondear2(areaM2),
         numDetectoresMinimo |-> numDetectoresMinimo,
         coberturaMaximaM2 |-> coberturaMaximaM2,
         espaciamientoMaximoM |-> Redondear2Raiz(coberturaMaximaM2),
         numDetectoresReal |-> numDetectoresReal,
         detectoresLargo |-> detectoresLargo,
         detectoresAncho |-> detectoresAncho,
         espaciamientoLargoM |-> Redondear2(espaciamientoLargoM),
         espaciamientoAnchoM |-> Redondear2(espaciamientoAnchoM),
         distanciaParedLargoM |-> Redondear2(distanciaParedLargoM),
         distanciaParedAnchoM |-> Redondear2(distanciaParedAnchoM),
         valido |-> TRUE,
         mensaje |-> mensajeVacio,
         advertencias |-> advertenciasDe(espaciamientoLargoM, espaciamientoAnchoM,
                                         coberturaMaximaM2)]

\* faulty variant: the zero-coverage check made before the height check
planificarCoberturaPrimero(detector, alturaM, largoM, anchoM) ==
    LET areaM2 == Mul(largoM, anchoM)
        coberturaMaximaM2 == coberturaEnRango(detector, obtenerRangoAltura(alturaM))
    IN  IF coberturaMaximaM2 = 0
        THEN rechazoNoAdecuado(areaM2)
        ELSE IF superaAlturaMaxima(detector, alturaM)
        THEN rechazoAlturaMaxima(detector, areaM2)
        ELSE resultadoAceptado(areaM2, coberturaMaximaM2, largoM, anchoM)

\* the planner on a detector record
planificar(detector, alturaM, largoM, anchoM) ==
    LET areaM2 == Mul(largoM, anchoM)
    IN  IF superaAlturaMaxima(detector, alturaM)
        THEN rechazoAlturaMaxima(detector, areaM2)
        ELSE LET coberturaMaximaM2 ==
                     coberturaEnRango(detector, obtenerRangoAltura(alturaM))
             IN  IF coberturaMaximaM2 = 0
                 THEN rechazoNoAdecuado(areaM2)
                 ELSE resultadoAceptado(areaM2, coberturaMaximaM2, largoM, anchoM)

\* tipoDetectorIndex is 0-based
calcularEspaciamientoDetectores(tipoDetectorIndex, alturaM, largoM, anchoM) ==
    planificar(tabla[tipoDetectorIndex + 1], alturaM, largoM, anchoM)

-----------------------------------------------------------------------------
(* utils/detection on doubles: calcularEspaciamientoDetectores with every  *)
(* product, quotient and root rounded as the code rounds it.  The ceiling  *)
(* height only enters comparisons, which no rounding touches, and stays    *)
(* the exact number it is.  What the code does once for the length and     *)
(* once for the width is written once, over the two axes.                  *)

\* the axes of the room, in the order of the code
Ejes == <<"largo", "ancho">>

\* Math.floor(x), an integer below 2^31
SueloDoble(x) ==
    IF EsCero(x) THEN 0
    ELSE IF x.e >= 0 THEN Sea(PorDos(x.m, x.e), AEntero)
    ELSE IF -x.e >= 53 THEN 0
    ELSE Sea(Dos(-x.e), LAMBDA unidad : Sea(DivN(x.m, unidad), AEntero))

\* faulty variant: Math.floor in place of Math.ceil
detectoresEnEjeDobleSuelo(ladoM, espaciamientoMaximoM) ==
    Sea(DivDoble(ladoM, espaciamientoMaximoM), SueloDoble)

\* Math.ceil(ladoM / espaciamientoMaximoM)
detectoresEnEjeDoble(ladoM, espaciamientoMaximoM) ==
    Sea(DivDoble(ladoM, espaciamientoMaximoM), TechoDoble)

\* ladoM / detectores: x / 0 is +Infinity for x > 0 and NaN for x = 0
dividirPorCuentaDoble(ladoM, detectores) ==
    IF detectores # 0 THEN Sea(DeEntero(detectores), LAMBDA n : DivDoble(ladoM, n))
    ELSE IF EsCero(ladoM) THEN NaN
    ELSE Infinito

\* espaciamientoM / 2
distanciaParedDoble(espaciamientoM) ==
    IF espaciamientoM.clase # "doble" THEN espaciamientoM
    ELSE Sea(DeEntero(2), LAMBDA dos : DivDoble(espaciamientoM, dos))

\* espaciamientoM > espaciamientoMaximoM * 1.05 (NaN compares false)
superaToleranciaDoble(espaciamientoM, espaciamientoMaximoM) ==
    /\ espaciamientoM.clase # "NaN"
    /\ Sea(DeDecimal(<<105>>, 2), LAMBDA margen :
        Sea(MulDoble(espaciamientoMaximoM, margen), LAMBDA tolerado :
            MayorDoble(espaciamientoM, tolerado)))

\* x.toFixed(2): the hundredths nearest to the exact value of x
aFijo2(x) ==
    IF x.clase # "doble" THEN x ELSE [centesimas |-> RedondeoEntero(x, 100)]

\* the warning of an axis
advertenciaEjeDoble(eje, espaciamientoM, espaciamientoMaximoM) ==
    Texto(IF eje = "largo"
          THEN "Espaciamiento en largo (${}m) supera el maximo (${}m)"
          ELSE "Espaciamiento en ancho (${}m) supera el maximo (${}m)",
          Fijar([i \in 1..2 |->
                    aFijo2(<<espaciamientoM, espaciamientoMaximoM>>[i])]))

\* the warning list after the two tolerance checks, espaciamientoM the
\* spacings of the two axes
advertenciasDoble(espaciamientoM, espaciamientoMaximoM) ==
    Sea(SelectSeq(<<1, 2>>,
                  LAMBDA i : superaToleranciaDoble(espaciamientoM[i],
                                                   espaciamientoMaximoM)),
        LAMBDA excedidos :
            Fijar([j \in 1..Len(excedidos) |->
                      advertenciaEjeDoble(Ejes[excedidos[j]],
                                          espaciamientoM[excedidos[j]],
                                          espaciamientoMaximoM)]))

\* Math.ceil(areaM2 / coberturaMaximaM2)
numDetectoresMinimoDoble(areaM2, coberturaMaximaM2) ==
    Sea(DeEntero(coberturaMaximaM2), LAMBDA c :
    Sea(DivDoble(areaM2, c), TechoDoble))

\* the object of the accepted path: the outputs that the return statement
\* rounds to 2 decimals are areaM2, espaciamientoMaximoM, the two spacings
\* and the two wall offsets
resultadoDoble(areaM2, numDetectoresMinimo, coberturaMaximaM2, espaciamientoMaximoM, detectores, espaciamientoM, distanciaParedM) ==
    Sea(Fijar([i \in 1..6 |->
                  Redondear2Doble(<<areaM2, espaciamientoMaximoM,
                                    espaciamientoM[1], espaciamientoM[2],
                                    distanciaParedM[1], distanciaParedM[2]>>[i])]),
        LAMBDA redondeado :
            [areaM2 |-> redondeado[1],
             numDetectoresMinimo |-> numDetectoresMinimo,
             coberturaMaximaM2 |-> coberturaMaximaM2,
             espaciamientoMaximoM |-> redondeado[2],
             numDetectoresReal |-> detectores[1] * detectores[2],
             detectoresLargo |-> detectores[1],
             detectoresAncho |-> detectores[2],
             espaciamientoLargoM |-> redondeado[3],
             espaciamientoAnchoM |-> redondeado[4],
             distanciaParedLargoM |-> redondeado[5],
             distanciaParedAnchoM |-> redondeado[6],
             valido |-> TRUE,
             mensaje |-> mensajeVacio,
             advertencias |-> advertenciasDoble(espaciamientoM, espaciamientoMaximoM)])

\* the accepted path: the grid for a nonzero coverage
resultadoAceptadoDoble(areaM2, coberturaMaximaM2, largoM, anchoM) ==
    Sea(RaizDoble(coberturaMaximaM2), LAMBDA espaciamientoMaximoM :
    Sea(numDetectoresMinimoDoble(areaM2, coberturaMaximaM2),
        LAMBDA numDetectoresMinimo :
    Sea(Fijar([i \in 1..2 |->
                  detectoresEnEjeDoble(<<largoM, anchoM>>[i], espaciamientoMaximoM)]),
        LAMBDA detectores :
    Sea(Fijar([i \in 1..2 |->
                  dividirPorCuentaDoble(<<largoM, anchoM>>[i], detectores[i])]),
        LAMBDA espaciamientoM :
    Sea(Fijar([i \in 1..2 |-> distanciaParedDoble(espaciamientoM[i])]),
        LAMBDA distanciaParedM :
            resultadoDoble(areaM2, numDetectoresMinimo, coberturaMaximaM2,
                           espaciamientoMaximoM, detectores, espaciamientoM,
                           distanciaParedM))))))

\* the planner on a detector record
planificarDoble(detector, alturaM, largoM, anchoM) ==
    Sea(MulDoble(largoM, anchoM), LAMBDA areaM2 :
        IF superaAlturaMaxima(detector, alturaM)
        THEN rechazoAlturaMaxima(detector, areaM2)
        ELSE Sea(coberturaEnRango(detector, obtenerRangoAltura(alturaM)),
                 LAMBDA coberturaMaximaM2 :
                     IF coberturaMaximaM2 = 0
                     THEN rechazoNoAdecuado(areaM2)
                     ELSE resultadoAceptadoDoble(areaM2, coberturaMaximaM2,
                                                 largoM, anchoM)))

\* tipoDetectorIndex is 0-based
calcularEspaciamientoDetectoresDoble(tipoDetectorIndex, alturaM, largoM, anchoM) ==
    planificarDoble(tabla[tipoDetectorIndex + 1], alturaM, largoM, anchoM)

-----------------------------------------------------------------------------
(* utils/hydraulics: calcularPerdidaCarga and calcularCaudalRociador.      *)

\* Valores tipicos del coeficiente C de Hazen-Williams
coeficientesC ==
    << [material |-> "Acero negro nuevo", valor |-> 120],
       [material |-> "Acero galvanizado", valor |-> 120],
       [material |-> "Acero negro (15-20 anos)", valor |-> 100],
       [material |-> "Hierro fundido nuevo", valor |-> 130],
       [material |-> "Hierro fundido (20 anos)", valor |-> 100],
       [material |-> "Cobre", valor |-> 140],
       [material |-> "Plastico (PVC, CPVC, PE)", valor |-> 150],
       [material |-> "Acero inoxidable", valor |-> 140] >>

\* Factores K tipicos de rociadores
factoresK ==
    << [tipo |-> "Rociador estandar (1/2\")", k |-> 80],
       [tipo |-> "Rociador estandar (3/4\")", k |-> 115],
       [tipo |-> "Rociador de cobertura extendida", k |-> 160],
       [tipo |-> "Rociador ESFR K14", k |-> 200],
       [tipo |-> "Rociador ESFR K17", k |-> 240],
       [tipo |-> "Rociador ESFR K25", k |-> 360] >>

\* faulty variant: L/min taken to m3/min, the 60 s of the minute left out
caudalM3sPorMinuto(caudalLpm) == DivEntero(caudalLpm, 1000)

\* caudalLpm / 60000: L/min a m3/s
caudalM3sDe(caudalLpm) == DivEntero(caudalLpm, 60000)

\* faulty variant: the reciprocal 1 / diametroMm taken for the diameter in m
diametroMInverso(diametroMm) == DivD(Uno, diametroMm)

\* diametroMm / 1000: mm a m
diametroMDe(diametroMm) == DivEntero(diametroMm, 1000)

\* faulty variant: the section of the diameter, not of the radius
areaDeDiametro(diametroM) == MulD(PI, MulD(diametroM, diametroM))

\* Math.PI * Math.pow(diametroM / 2, 2)
areaDe(diametroM) ==
    MulD(PI, MulD(DivEntero(diametroM, 2), DivEntero(diametroM, 2)))

\* caudalM3s / area
velocidadMsDe(caudalM3s, area) == DivD(caudalM3s, area)

\* faulty variant: the exponents 1.852 and 4.87 of C and D exchanged
perdidaPorMetroExponentesCambiados(caudalM3s, coeficienteC, diametroM) ==
    Sea(Pow(caudalM3s, Decimal(1852, 1000)), LAMBDA potenciaQ :
    Sea(Pow(coeficienteC, Decimal(487, 100)), LAMBDA potenciaC :
    Sea(Pow(diametroM, Decimal(1852, 1000)), LAMBDA potenciaD :
        DivD(MulD(Decimal(1067, 100), potenciaQ), MulD(potenciaC, potenciaD)))))

\* faulty variant: the factor 10.67 added and not multiplied
perdidaPorMetroSumando(caudalM3s, coeficienteC, diametroM) ==
    Sea(Pow(caudalM3s, Decimal(1852, 1000)), LAMBDA potenciaQ :
    Sea(Pow(coeficienteC, Decimal(1852, 1000)), LAMBDA potenciaC :
    Sea(Pow(diametroM, Decimal(487, 100)), LAMBDA potenciaD :
        DivD(SumaN(Decimal(1067, 100), potenciaQ), MulD(potenciaC, potenciaD)))))

\* 10.67 * Math.pow(caudalM3s, 1.852) /
\*   (Math.pow(coeficienteC, 1.852) * Math.pow(diametroM, 4.87))
perdidaPorMetroDe(caudalM3s, coeficienteC, diametroM) ==
    Sea(Pow(caudalM3s, Decimal(1852, 1000)), LAMBDA potenciaQ :
    Sea(Pow(coeficienteC, Decimal(1852, 1000)), LAMBDA potenciaC :
    Sea(Pow(diametroM, Decimal(487, 100)), LAMBDA potenciaD :
        DivD(MulD(Decimal(1067, 100), potenciaQ), MulD(potenciaC, potenciaD)))))

\* faulty variant: the total loss taken from the per-meter loss already rounded
\* to 4 decimals
perdidaBarDesdeRedondeado(perdidaPorMetro, longitudM) ==
    DivD(MulD(DivEntero(ProdEntero(Uno, RedondearD(ProdEntero(perdidaPorMetro, 10000))),
                        10000),
              longitudM),
         Decimal(10197, 1000))

\* perdidaPorMetro * longitudM / 10.197 (1 bar = 10.197 m de columna de agua)
perdidaBarDe(perdidaPorMetro, longitudM) ==
    DivD(MulD(perdidaPorMetro, longitudM), Decimal(10197, 1000))

calcularPerdidaCarga(caudalLpm, diametroMm, longitudM, coeficienteC) ==
    Sea(caudalM3sDe(caudalLpm), LAMBDA caudalM3s :
    Sea(diametroMDe(diametroMm), LAMBDA diametroM :
    Sea(areaDe(diametroM), LAMBDA area :
    Sea(velocidadMsDe(caudalM3s, area), LAMBDA velocidadMs :
    Sea(perdidaPorMetroDe(caudalM3s, coeficienteC, diametroM), LAMBDA perdidaPorMetro :
    Sea(perdidaBarDe(perdidaPorMetro, longitudM), LAMBDA perdidaBar :
        [perdidaBar |-> RedondearDecimales(perdidaBar, 1000),
         velocidadMs |-> RedondearDecimales(velocidadMs, 100),
         perdidaPorMetro |-> RedondearDecimales(perdidaPorMetro, 10000)]))))))

\* faulty variant: bar converted to metres of water with 10.197
caudalSinRedondearExacto(factorK, presionBar) ==
    MulD(factorK, RaizD(MulD(presionBar, Decimal(10197, 1000))))

\* factorK * Math.sqrt(presionBar * 10)
caudalSinRedondear(factorK, presionBar) ==
    MulD(factorK, RaizD(ProdEntero(presionBar, 10)))

calcularCaudalRociador(factorK, presionBar) ==
    [caudalLpm |-> RedondearDecimales(caudalSinRedondear(factorK, presionBar), 10)]

-----------------------------------------------------------------------------
(* NormaViewer and SearchBar: the values of their state.                   *)

\* a string is the sequence of its characters
Digitos == <<"0", "1", "2", "3", "4", "5", "6", "7", "8", "9">>
Letras == <<"A", "B", "C", "D">>

Rango(s) == { s[i] : i \in 1..Len(s) }

\* a state of type string | null
Nulo == [hay |-> FALSE, valor |-> <<>>]
Cadena(s) == [hay |-> TRUE, valor |-> s]

\* !x of a string | null: null and the empty string are falsy
EsFalsy(x) == ~x.hay \/ Len(x.valor) = 0

\* /^\d+$/.test(numero)
EsNumerico(numero) ==
    /\ Len(numero) >= 1
    /\ \A i \in 1..Len(numero) : numero[i] \in Rango(Digitos)

\* numero.match(/^([A-Z])\./)
EsDeAnexo(numero) ==
    /\ Len(numero) >= 2
    /\ numero[1] \in Rango(Letras)
    /\ numero[2] = "."

\* `ANEXO_${letra}`
Anexo(letra) == <<"A", "N", "E", "X", "O", "_", letra>>

\* norms have up to MaxCapitulos chapters, MaxAnexos annexes and MaxTablas
\* curated tables
MaxCapitulos == 2
MaxAnexos == 1
MaxTablas == 2

\* the sections of a norm of a annexes and k chapters, in the order of its
\* file: the sections A.1, B.1, .. of the annexes, then every chapter 0, 1, ..
\* followed by its subsection 0.1, 1.1, ..
seccionesDe(k, a) ==
    [i \in 1..a |-> <<Letras[i], ".", "1">>]
    \o [j \in 1..(2 * k) |->
           IF j % 2 = 1 THEN <<Digitos[(j + 1) \div 2]>>
           ELSE <<Digitos[j \div 2], ".", "1">>]

\* the ids of t curated tables
tablasDe(t) == [i \in 1..t |-> <<"t", Digitos[i + 1]>>]

\* normasDisponibles.find(...) found nothing
NormaNoEncontrada ==
    [encontrada |-> FALSE, secciones |-> <<>>, tablasTecnicas |-> <<>>, figuras |-> 0]

\* what normasDisponibles.find(...) and tablasManuales can give the viewer
Normas ==
    { NormaNoEncontrada } \cup
    { [encontrada |-> TRUE, secciones |-> seccionesDe(k, a),
       tablasTecnicas |-> tablasDe(t), figuras |-> f] :
          k \in 0..MaxCapitulos, a \in 0..MaxAnexos, t \in 0..MaxTablas, f \in 0..1 }

\* NormaViewer as it mounts on a norm: useState(null), (null), (false); the
\* effect has not run yet
normaViewerSobre(norma) ==
    [norma |-> norma, seccionActiva |-> Nulo, tablaTecnicaActiva |-> Nulo,
     galeriaActiva |-> FALSE, efectoPendiente |-> TRUE]

\* queries have up to MaxConsulta characters
MaxConsulta == 2
\* up to MaxTemporizadores blur timers wait at a time
MaxTemporizadores == 2

Alfabeto == {"a", "b"}
Consultas == UNION { [1..n -> Alfabeto] : n \in 0..MaxConsulta }

\* the entries of the search index
Indice == << <<"a", "b">>, <<"b", "b", "a">>, <<"a", "a", "b">> >>

\* the entry holds the query
Contiene(entrada, consulta) ==
    \E i \in 0..(Len(entrada) - Len(consulta)) :
        \A j \in 1..Len(consulta) : entrada[i + j] = consulta[j]

\* buscarEnNormas(fuse, query, limite): at most limite entries that match
buscarEnNormas(consulta, limite) ==
    LET Coincide(entrada) == Contiene(entrada, consulta)
        todas == SelectSeq(Indice, Coincide)
    IN  SubSeq(todas, 1, Min2(Len(todas), limite))

\* SearchBar as it mounts: useState(''), ([]), (false); the input has no
\* focus, no timer waits, the effect has not run yet
searchBarInicial ==
    [query |-> <<>>, resultados |-> <<>>, mostrarResultados |-> FALSE,
     foco |-> FALSE, temporizadores |-> 0, efectoPendiente |-> TRUE]

\* the two components as they mount, the viewer on a norm it does not find
PaginasInicial ==
    /\ normaViewer = normaViewerSobre(NormaNoEncontrada)
    /\ searchBar = searchBarInicial

-----------------------------------------------------------------------------
(* The EspaciamientoDetectores form.                                       *)

NULO == [valido |-> FALSE, nulo |-> TRUE]

Alturas == { Num(k, 2) : k \in 1..MaxAlturaMedios }
Largos == { Num(k, PasosPorMetro) :
              k \in (-MinLargoM * PasosPorMetro)..(MaxLargoM * PasosPorMetro) }
Anchos == { Num(k, PasosPorMetro) :
              k \in (-MinAnchoM * PasosPorMetro)..(MaxAnchoM * PasosPorMetro) }
\* lengths off the grid, within 0.005 of a rounding boundary of the engine:
\*   5.48 m     just above sqrt(30) = 5.4772.., whose 2-decimal output is 5.48
\*   1347/101 m (13.3366..) with a 1.5 m width, an area of 20.00495.. m2,
\*              just above one coverage of 20 m2
\*   -5.752 m   a spacing between 1.05 sqrt(30) = 5.7511.. and 1.05 * 5.48
LargosFinos == { Num(548, 100), Num(1347, 101), Num(-5752, 1000) }
\* a width off the grid: the 10 m of a 10 m x 10 m room
AnchosFinos == { Entero(10) }

\* PerdidaCarga as it mounts: useState('500'), ('50'), ('100'), ('120'), (null)
perdidaCargaInicial ==
    [caudal |-> Entero(500), diametro |-> Entero(50), longitud |-> Entero(100),
     coeficiente |-> Entero(120), resultado |-> NULO]

\* CaudalRociadores as it mounts: useState('80'), ('0.5'), (null)
caudalRociadoresInicial ==
    [factorK |-> Entero(80), presion |-> Num(5, 10), resultado |-> NULO]

\* what the EspaciamientoDetectores form leaves as it is: the tables of
\* utils/hydraulics, the two other calculators (as they mount), no caller
\* inside the engine
RestoInicial ==
    /\ tablaCoeficientes = coeficientesC
    /\ tablaFactores = factoresK
    /\ perdidaCarga = perdidaCargaInicial
    /\ caudalRociadores = caudalRociadoresInicial
    /\ llamadas = <<>>
    /\ historial = {}
    /\ PaginasInicial

\* the form after any sequence of edits of its fields, no result shown yet
Init ==
    /\ tabla \in {tiposDetectores, tiposAlternativos}
    /\ tipoDetector \in 0..(Len(tabla) - 1)
    /\ altura \in Alturas
    /\ largo \in Largos \cup LargosFinos
    /\ ancho \in Anchos \cup AnchosFinos
    /\ resultado = NULO
    /\ RestoInicial

\* the Calcular button
calcular ==
    /\ resultado = NULO
    /\ resultado' = calcularEspaciamientoDetectores(tipoDetector, altura, largo, ancho)
    /\ UNCHANGED <<tabla, tipoDetector, altura, largo, ancho>>
    /\ UNCHANGED <<tablaCoeficientes, tablaFactores, perdidaCarga, caudalRociadores,
                   llamadas, historial>>
    /\ UNCHANGED paginas

Next == calcular

Spec == Init /\ [][Next]_vars

-----------------------------------------------------------------------------
(* The EspaciamientoDetectores form on doubles.                            *)

\* the sides are up to MaxEspaciamientos maximum spacings of a coverage
MaxEspaciamientos == 1

\* the nonzero coverages of the reference table
CoberturasDeLaTabla ==
    { tiposDetectores[i].coberturaMaxM2[j] :
          i \in DOMAIN tiposDetectores, j \in 1..4 } \ {0}

\* k * Math.sqrt(c)
ladoDeEspaciamientos(k, c) ==
    Sea(DeEntero(k), LAMBDA n : Sea(RaizDoble(c), LAMBDA s : MulDoble(n, s)))

\* sides of a whole number of maximum spacings: the doubles that the field
\* texts of their shortest decimal forms parse to
LadosDeEspaciamientos ==
    { ladoDeEspaciamientos(k, c) :
          k \in 1..MaxEspaciamientos, c \in CoberturasDeLaTabla }

\* the smallest positive double (the field text 5e-324) and 2^-500
LadosDiminutos == { Doble(<<1>>, -1074), Doble(Dos(52), -552) }

LadosDobles == LadosDeEspaciamientos \cup LadosDiminutos

\* widths: the maximum spacing of 80 m2, and 2^-540 m
AnchosDobles == { RaizDoble(80), Doble(Dos(52), -592) }

\* ceiling heights of 3 m and 9 m
AlturasDobles == { Entero(3), Entero(9) }

\* the form after any sequence of edits of its fields, no result shown yet
InitDoble ==
    /\ tabla = tiposDetectores
    /\ tipoDetector \in 0..(Len(tabla) - 1)
    /\ altura \in AlturasDobles
    /\ largo \in LadosDobles
    /\ ancho \in AnchosDobles
    /\ resultado = NULO
    /\ RestoInicial

\* the Calcular button
calcularDoble ==
    /\ resultado = NULO
    /\ resultado' = calcularEspaciamientoDetectoresDoble(tipoDetector, altura,
                                                         largo, ancho)
    /\ UNCHANGED <<tabla, tipoDetector, altura, largo, ancho>>
    /\ UNCHANGED <<tablaCoeficientes, tablaFactores, perdidaCarga, caudalRociadores,
                   llamadas, historial>>
    /\ UNCHANGED paginas

NextDoble == calcularDoble

SpecDoble == InitDoble /\ [][NextDoble]_vars

-----------------------------------------------------------------------------
(* The PerdidaCarga and CaudalRociadores forms.                            *)

\* caudal fields are 250 k L/min for k in 0..MaxCaudalPasos
MaxCaudalPasos == 2
\* diametro fields are 25 k mm for k in 1..MaxDiametroPasos
MaxDiametroPasos == 3
\* longitud fields are 50 k m for k in 0..MaxLongitudPasos
MaxLongitudPasos == 2
\* presion fields are k / 10 bar for k in 0..MaxPresionDecimas
MaxPresionDecimas == 25

Caudales == { Entero(250 * k) : k \in 0..MaxCaudalPasos }
Diametros == { Entero(25 * k) : k \in 1..MaxDiametroPasos }
Longitudes == { Entero(50 * k) : k \in 0..MaxLongitudPasos }
\* the options of the material select
Coeficientes == { Entero(tablaCoeficientes[i].valor) : i \in 1..Len(tablaCoeficientes) }
\* the options of the K select, and a custom factor typed in the field
FactoresK == { Entero(tablaFactores[i].k) : i \in 1..Len(tablaFactores) }
                 \cup { Num(805, 10) }
Presiones == { Num(k, 10) : k \in 0..MaxPresionDecimas }

\* parseFloat of a field holding a non-negative number
parseFloat(campo) == Decimal(campo.num, campo.den)

\* the EspaciamientoDetectores form as it mounts: useState(0), ('3'), ('100'),
\* ('50'), (null)
DetectoresInicial ==
    /\ tabla = tiposDetectores
    /\ tipoDetector = 0
    /\ altura = Entero(3)
    /\ largo = Entero(100)
    /\ ancho = Entero(50)
    /\ resultado = NULO

\* the PerdidaCarga form after any sequence of edits of its fields, no result
\* shown yet
InitPerdida ==
    /\ DetectoresInicial
    /\ tablaCoeficientes = coeficientesC
    /\ tablaFactores = factoresK
    /\ perdidaCarga \in [caudal : Caudales, diametro : Diametros,
                        longitud : Longitudes, coeficiente : Coeficientes,
                        resultado : {NULO}]
    /\ caudalRociadores = caudalRociadoresInicial
    /\ llamadas = <<>>
    /\ historial = {}
    /\ PaginasInicial

\* the Calcular button of PerdidaCarga
calcularPerdida ==
    /\ perdidaCarga.resultado = NULO
    /\ perdidaCarga' =
           [perdidaCarga EXCEPT !.resultado =
                calcularPerdidaCarga(parseFloat(perdidaCarga.caudal),
                                     parseFloat(perdidaCarga.diametro),
                                     parseFloat(perdidaCarga.longitud),
                                     parseFloat(perdidaCarga.coeficiente))]
    /\ UNCHANGED <<tabla, tipoDetector, altura, largo, ancho, resultado,
                   tablaCoeficientes, tablaFactores, caudalRociadores,
                   llamadas, historial>>
    /\ UNCHANGED paginas

NextPerdida == calcularPerdida

SpecPerdida == InitPerdida /\ [][NextPerdida]_vars

\* the CaudalRociadores form after any sequence of edits of its fields, no
\* result shown yet
InitCaudal ==
    /\ DetectoresInicial
    /\ tablaCoeficientes = coeficientesC
    /\ tablaFactores = factoresK
    /\ perdidaCarga = perdidaCargaInicial
    /\ caudalRociadores \in [factorK : FactoresK, presion : Presiones,
                            resultado : {NULO}]
    /\ llamadas = <<>>
    /\ historial = {}
    /\ PaginasInicial

\* the Calcular button of CaudalRociadores
calcularCaudal ==
    /\ caudalRociadores.resultado = NULO
    /\ caudalRociadores' =
           [caudalRociadores EXCEPT !.resultado =
                calcularCaudalRociador(parseFloat(caudalRociadores.factorK),
                                       parseFloat(caudalRociadores.presion))]
    /\ UNCHANGED <<tabla, tipoDetector, altura, largo, ancho, resultado,
                   tablaCoeficientes, tablaFactores, perdidaCarga,
                   llamadas, historial>>
    /\ UNCHANGED paginas

NextCaudal == calcularCaudal

SpecCaudal == InitCaudal /\ [][NextCaudal]_vars

-----------------------------------------------------------------------------
(* Callers of the three calculation functions.                             *)

\* the callers: two are enough for one invocation to begin and end inside another
Llamadores == {1, 2}

\* the invocations a caller makes, the arguments as numbers:
\*   the detector planner on a 100 m x 50 m room (the form as it mounts) and
\*   on a room with a negative side, whose spacing raises a warning,
\*   calcularPerdidaCarga(500, 50, 100, 120) and calcularCaudalRociador(80, 0.5)
Invocaciones ==
    { [funcion |-> "calcularEspaciamientoDetectores",
       parametros |-> <<Entero(0), Entero(3), Entero(100), Entero(50)>>],
      [funcion |-> "calcularEspaciamientoDetectores",
       parametros |-> <<Entero(0), Entero(3), Entero(-20), Entero(5)>>],
      [funcion |-> "calcularPerdidaCarga",
       parametros |-> <<Entero(500), Entero(50), Entero(100), Entero(120)>>],
      [funcion |-> "calcularCaudalRociador",
       parametros |-> <<Entero(80), Num(5, 10)>>] }

\* a caller that has made no invocation yet
SinLlamada ==
    [fase |-> "fuera", funcion |-> "", parametros |-> <<>>, solapada |-> FALSE,
     resultado |-> NULO]

\* the callers inside a function
Dentro == { c \in Llamadores : llamadas[c].fase = "dentro" }

\* the longest warning list a planner invocation has returned
advertenciasGuardadas ==
    LET listas == { h.resultado.advertencias :
                      h \in { r \in historial :
                                r.funcion = "calcularEspaciamientoDetectores" } }
    IN  IF listas = {} THEN <<>>
        ELSE CHOOSE l \in listas : \A m \in listas : Len(m) <= Len(l)

\* faulty variant: the planner keeps one warning list for all its invocations
\* and never empties it
ejecutarConMemoria(funcion, parametros) ==
    CASE funcion = "calcularEspaciamientoDetectores" ->
             LET res == calcularEspaciamientoDetectores(parametros[1].num, parametros[2],
                                                        parametros[3], parametros[4])
             IN  [res EXCEPT !.advertencias = advertenciasGuardadas \o res.advertencias]
      [] funcion = "calcularPerdidaCarga" ->
             calcularPerdidaCarga(parseFloat(parametros[1]), parseFloat(parametros[2]),
                                  parseFloat(parametros[3]), parseFloat(parametros[4]))
      [] funcion = "calcularCaudalRociador" ->
             calcularCaudalRociador(parseFloat(parametros[1]), parseFloat(parametros[2]))

\* the body of a function on its parameters: the planner indexes the table,
\* the two hydraulic functions read no table
ejecutar(funcion, parametros) ==
    CASE funcion = "calcularEspaciamientoDetectores" ->
             calcularEspaciamientoDetectores(parametros[1].num, parametros[2],
                                             parametros[3], parametros[4])
      [] funcion = "calcularPerdidaCarga" ->
             calcularPerdidaCarga(parseFloat(parametros[1]), parseFloat(parametros[2]),
                                  parseFloat(parametros[3]), parseFloat(parametros[4]))
      [] funcion = "calcularCaudalRociador" ->
             calcularCaudalRociador(parseFloat(parametros[1]), parseFloat(parametros[2]))

\* faulty variant: the parameters kept in one place for all the invocations of
\* a function, where an invocation finds those of another one still inside
parametrosCompartidos(c) ==
    LET otros == { d \in Dentro \ {c} : llamadas[d].funcion = llamadas[c].funcion }
    IN  IF otros = {} THEN llamadas[c].parametros
        ELSE llamadas[CHOOSE d \in otros : TRUE].parametros

\* the parameters the body of caller c's invocation reads: its own
parametrosDe(c) == llamadas[c].parametros

InitLlamadas ==
    /\ DetectoresInicial
    /\ tablaCoeficientes = coeficientesC
    /\ tablaFactores = factoresK
    /\ perdidaCarga = perdidaCargaInicial
    /\ caudalRociadores = caudalRociadoresInicial
    /\ llamadas = [c \in Llamadores |-> SinLlamada]
    /\ historial = {}
    /\ PaginasInicial

\* caller c enters a function: the invocation has its own parameters; it
\* overlaps every invocation that has not returned yet
invocar(c, invocacion) ==
    /\ llamadas[c].fase = "fuera"
    /\ llamadas' =
           [d \in Llamadores |->
               IF d = c
               THEN [fase |-> "dentro", funcion |-> invocacion.funcion,
                     parametros |-> invocacion.parametros,
                     solapada |-> Dentro # {}, resultado |-> NULO]
               ELSE IF d \in Dentro THEN [llamadas[d] EXCEPT !.solapada = TRUE]
               ELSE llamadas[d]]
    /\ UNCHANGED <<tabla, tipoDetector, altura, largo, ancho, resultado,
                   tablaCoeficientes, tablaFactores, perdidaCarga,
                   caudalRociadores, historial>>
    /\ UNCHANGED paginas

\* caller c's invocation runs its body and returns the object it built to
\* the caller; no table is written
retornar(c) ==
    /\ llamadas[c].fase = "dentro"
    /\ LET res == ejecutar(llamadas[c].funcion, parametrosDe(c))
       IN  /\ llamadas' = [llamadas EXCEPT ![c].fase = "fuera", ![c].resultado = res]
           /\ historial' = historial \cup
                  { [funcion |-> llamadas[c].funcion,
                     parametros |-> llamadas[c].parametros,
                     resultado |-> res] }
    /\ UNCHANGED <<tabla, tipoDetector, altura, largo, ancho, resultado,
                   tablaCoeficientes, tablaFactores, perdidaCarga,
                   caudalRociadores>>
    /\ UNCHANGED paginas

NextLlamadas ==
    \E c \in Llamadores :
        \/ \E invocacion \in Invocaciones : invocar(c, invocacion)
        \/ retornar(c)

SpecLlamadas == InitLlamadas /\ [][NextLlamadas]_vars

-----------------------------------------------------------------------------
(* NormaViewer: the selection of what the viewer shows.                    *)

\* the state of the calculators and of the callers of the engine
calculadoras == <<tabla, tipoDetector, altura, largo, ancho, resultado,
                  tablaCoeficientes, tablaFactores, perdidaCarga, caudalRociadores,
                  llamadas, historial>>

\* the calculators as they mount, no caller inside the engine
CalculadorasInicial ==
    /\ DetectoresInicial
    /\ tablaCoeficientes = coeficientesC
    /\ tablaFactores = factoresK
    /\ perdidaCarga = perdidaCargaInicial
    /\ caudalRociadores = caudalRociadoresInicial
    /\ llamadas = <<>>
    /\ historial = {}

\* SeccionesNav: the chapters it lists, secciones.filter(s => /^\d+$/.test(s.numero))
capitulosPrincipales(norma) == SelectSeq(norma.secciones, EsNumerico)

\* SeccionesNav: the letters of the annexes that have a section
anexosExistentes(norma) ==
    { numero[1] : numero \in { s \in Rango(norma.secciones) : EsDeAnexo(s) } }

\* norma.secciones.find(s => /^\d+$/.test(s.numero)), undefined as null
primeraSeccion(norma) ==
    IF Len(capitulosPrincipales(norma)) = 0 THEN Nulo
    ELSE Cadena(capitulosPrincipales(norma)[1])

\* the three states after a handler or the effect has set them; the effect is
\* due again when one of its dependencies has changed
seleccionar(seccion, tablaTecnica, galeria) ==
    normaViewer' =
        [normaViewer EXCEPT
            !.seccionActiva = seccion,
            !.tablaTecnicaActiva = tablaTecnica,
            !.galeriaActiva = galeria,
            !.efectoPendiente =
                \/ normaViewer.efectoPendiente
                \/ seccion # normaViewer.seccionActiva
                \/ tablaTecnica # normaViewer.tablaTecnicaActiva
                \/ galeria # normaViewer.galeriaActiva]

\* the viewer mounts on the norm of the route
InitNorma ==
    /\ CalculadorasInicial
    /\ normaViewer \in { normaViewerSobre(norma) : norma \in Normas }
    /\ searchBar = searchBarInicial

\* useEffect(..., [norma, seccionActiva, tablaTecnicaActiva, galeriaActiva]):
\* a run of the effect after a render that changed a dependency
efectoSeleccion ==
    /\ normaViewer.efectoPendiente
    /\ IF /\ normaViewer.norma.encontrada
          /\ Len(normaViewer.norma.secciones) > 0
          /\ EsFalsy(normaViewer.seccionActiva)
          /\ EsFalsy(normaViewer.tablaTecnicaActiva)
          /\ ~normaViewer.galeriaActiva
          /\ primeraSeccion(normaViewer.norma).hay
       THEN normaViewer' =
                [normaViewer EXCEPT
                    !.seccionActiva = primeraSeccion(normaViewer.norma),
                    !.efectoPendiente =
                        primeraSeccion(normaViewer.norma) # normaViewer.seccionActiva]
       ELSE normaViewer' = [normaViewer EXCEPT !.efectoPendiente = FALSE]
    /\ UNCHANGED <<calculadoras, searchBar>>

\* a chapter button or an annex button of SeccionesNav
handleSelectSeccion(numero) ==
    /\ normaViewer.norma.encontrada
    /\ \/ numero \in Rango(capitulosPrincipales(normaViewer.norma))
       \/ \E letra \in anexosExistentes(normaViewer.norma) : numero = Anexo(letra)
    /\ seleccionar(Cadena(numero), Nulo, FALSE)
    /\ UNCHANGED <<calculadoras, searchBar>>

\* a button of the curated tables
handleSelectTablaTecnica(id) ==
    /\ normaViewer.norma.encontrada
    /\ id \in Rango(normaViewer.norma.tablasTecnicas)
    /\ seleccionar(Nulo, Cadena(id), FALSE)
    /\ UNCHANGED <<calculadoras, searchBar>>

\* faulty variant: the gallery opened without clearing the section
handleSelectGaleriaSinLimpiar ==
    /\ normaViewer.norma.encontrada
    /\ normaViewer.norma.figuras > 0
    /\ seleccionar(normaViewer.seccionActiva, Nulo, TRUE)
    /\ UNCHANGED <<calculadoras, searchBar>>

\* the button of the figures, shown when the norm has figures
handleSelectGaleria ==
    /\ normaViewer.norma.encontrada
    /\ normaViewer.norma.figuras > 0
    /\ seleccionar(Nulo, Nulo, TRUE)
    /\ UNCHANGED <<calculadoras, searchBar>>

\* every numero a button of some norm passes to handleSelectSeccion
NumerosDeSeccion ==
    UNION { Rango(norma.secciones) : norma \in Normas }
        \cup { Anexo(Letras[i]) : i \in 1..Len(Letras) }

\* every id a button of some norm passes to handleSelectTablaTecnica
IdsDeTabla == UNION { Rango(norma.tablasTecnicas) : norma \in Normas }

NextNorma ==
    \/ efectoSeleccion
    \/ \E numero \in NumerosDeSeccion : handleSelectSeccion(numero)
    \/ \E id \in IdsDeTabla : handleSelectTablaTecnica(id)
    \/ handleSelectGaleria

SpecNorma == InitNorma /\ [][NextNorma]_vars

-----------------------------------------------------------------------------
(* SearchBar: the query, its effect, the focus and the blur timers.        *)

\* the search bar mounts
InitBusqueda ==
    /\ CalculadorasInicial
    /\ normaViewer = normaViewerSobre(NormaNoEncontrada)
    /\ searchBar = searchBarInicial

\* onChange={(e) => setQuery(e.target.value)}: the user edits the focused
\* input; the effect is due when the query has changed
onChange(valor) ==
    /\ searchBar.foco
    /\ searchBar' = [searchBar EXCEPT
                        !.query = valor,
                        !.efectoPendiente = searchBar.efectoPendiente
                                                \/ valor # searchBar.query]
    /\ UNCHANGED <<calculadoras, normaViewer>>

\* faulty variant: the effect showing the results from the first character on
efectoConsultaDesdeUno ==
    /\ searchBar.efectoPendiente
    /\ searchBar' =
           IF Len(searchBar.query) >= 1
           THEN [searchBar EXCEPT
                    !.resultados = buscarEnNormas(searchBar.query, 10),
                    !.mostrarResultados = TRUE,
                    !.efectoPendiente = FALSE]
           ELSE [searchBar EXCEPT
                    !.resultados = <<>>,
                    !.mostrarResultados = FALSE,
                    !.efectoPendiente = FALSE]
    /\ UNCHANGED <<calculadoras, normaViewer>>

\* useEffect(..., [query, fuse]): a run of the effect after a render that
\* changed the query, and after the mount
efectoConsulta ==
    /\ searchBar.efectoPendiente
    /\ searchBar' =
           IF Len(searchBar.query) >= 2
           THEN [searchBar EXCEPT
                    !.resultados = buscarEnNormas(searchBar.query, 10),
                    !.mostrarResultados = TRUE,
                    !.efectoPendiente = FALSE]
           ELSE [searchBar EXCEPT
                    !.resultados = <<>>,
                    !.mostrarResultados = FALSE,
                    !.efectoPendiente = FALSE]
    /\ UNCHANGED <<calculadoras, normaViewer>>

\* onFocus={() => query.length >= 2 && setMostrarResultados(true)}
onFocus ==
    /\ ~searchBar.foco
    /\ searchBar' = [searchBar EXCEPT
                        !.foco = TRUE,
                        !.mostrarResultados =
                            IF Len(searchBar.query) >= 2 THEN TRUE
                            ELSE searchBar.mostrarResultados]
    /\ UNCHANGED <<calculadoras, normaViewer>>

\* onBlur={() => setTimeout(() => setMostrarResultados(false), 200)}
onBlur ==
    /\ searchBar.foco
    /\ searchBar.temporizadores < MaxTemporizadores
    /\ searchBar' = [searchBar EXCEPT
                        !.foco = FALSE,
                        !.temporizadores = searchBar.temporizadores + 1]
    /\ UNCHANGED <<calculadoras, normaViewer>>

\* a blur timer fires, 200 ms after its blur: setMostrarResultados(false)
temporizador ==
    /\ searchBar.temporizadores > 0
    /\ searchBar' = [searchBar EXCEPT
                        !.mostrarResultados = FALSE,
                        !.temporizadores = searchBar.temporizadores - 1]
    /\ UNCHANGED <<calculadoras, normaViewer>>

NextBusqueda ==
    \/ \E valor \in Consultas : onChange(valor)
    \/ efectoConsulta
    \/ onFocus
    \/ onBlur
    \/ temporizador

SpecBusqueda == InitBusqueda /\ [][NextBusqueda]_vars

-----------------------------------------------------------------------------
(* Properties of calcularEspaciamientoDetectores, stated on the form's     *)
(* fields (the arguments of the call) and the result it shows.             *)

\* the call has returned
Hecho == resultado # NULO

\* the TipoDetector record the call reads
detectorElegido == tabla[tipoDetector + 1]

PlantillaAlturaMaxima == "La altura maxima para este detector es ${}m"
PlantillaNoAdecuado == "Este tipo de detector no es adecuado para esta altura"

EsRechazoPorAltura == resultado.mensaje.plantilla = PlantillaAlturaMaxima
EsRechazoNoAdecuado == resultado.mensaje.plantilla = PlantillaNoAdecuado

\* the band the breakpoints 6, 8 and 10 m give a height h = num/den
BandaDe(h) ==
    CASE h.num <= 6 * h.den -> 0
      [] h.num > 6 * h.den /\ h.num <= 8 * h.den -> 1
      [] h.num > 8 * h.den /\ h.num <= 10 * h.den -> 2
      [] h.num > 10 * h.den -> 3

\* the table entry of the chosen detector at the band of the height
CoberturaDeLaBanda == detectorElegido.coberturaMaxM2[BandaDe(altura) + 1]

\* k * sqrt(c) < x, for an integer k and a finite number x
RaizPorDebajo(k, c, x) ==
    CASE k >= 0 /\ x.num <= 0 -> FALSE
      [] k < 0 /\ x.num >= 0 -> TRUE
      [] k >= 0 /\ x.num > 0 -> k * k * c * x.den * x.den < x.num * x.num
      [] k < 0 /\ x.num < 0 -> k * k * c * x.den * x.den > x.num * x.num

\* n = ceil(x / sqrt(c)): (n - 1) sqrt(c) < x <= n sqrt(c)
EsTecho(n, x, c) == RaizPorDebajo(n - 1, c, x) /\ ~RaizPorDebajo(n, c, x)

\* the full-precision spacing x / n exceeds 1.05 sqrt(c); a zero count divides
\* 0 into NaN (no excess) and anything else into an infinity of its sign
ExcedeTolerancia(x, n, c) ==
    IF n = 0 THEN x.num # 0
    ELSE /\ (x.num > 0) = (n > 0)
         /\ x.num # 0
         /\ 400 * x.num * x.num > 441 * c * x.den * x.den * n * n

\* C1: the height-exceeded rejection is returned exactly when the height is
\* greater than the detector's alturaMaxM (an equal height is not rejected by
\* this check), and it has valido = false, the four counts 0, no warnings, and
\* a message holding that detector's alturaMaxM.
C1_RechazoPorAlturaExacto ==
    Hecho =>
        /\ EsRechazoPorAltura <=>
               altura.num * detectorElegido.alturaMaxM.den
                   > detectorElegido.alturaMaxM.num * altura.den
        /\ EsRechazoPorAltura =>
               /\ resultado.valido = FALSE
               /\ resultado.numDetectoresMinimo = 0
               /\ resultado.numDetectoresReal = 0
               /\ resultado.detectoresLargo = 0
               /\ resultado.detectoresAncho = 0
               /\ resultado.advertencias = <<>>
               /\ resultado.mensaje.args = <<detectorElegido.alturaMaxM>>

\* a height half a metre above alturaMaxM has been rejected
C1_Testigo ==
    /\ Hecho
    /\ altura = Num(2 * detectorElegido.alturaMaxM.num + detectorElegido.alturaMaxM.den,
                    2 * detectorElegido.alturaMaxM.den)
    /\ EsRechazoPorAltura
    /\ ~resultado.valido

\* C2: a detector whose alturaMaxM admits the height and whose coverage at the
\* band of the height is 0 gets valido = false with the 'unsuitable' message,
\* never the height-exceeded one, and nothing is divided by the zero coverage
\* (every count and spacing is the number 0); with a nonzero coverage at the
\* band the same call is accepted.
C2_RechazoCoberturaNula ==
    (Hecho /\ MenorIgual(altura, detectorElegido.alturaMaxM)) =>
        /\ CoberturaDeLaBanda = 0 =>
               /\ resultado.valido = FALSE
               /\ EsRechazoNoAdecuado
               /\ ~EsRechazoPorAltura
               /\ resultado.numDetectoresMinimo = 0
               /\ resultado.numDetectoresReal = 0
               /\ resultado.detectoresLargo = 0
               /\ resultado.detectoresAncho = 0
               /\ resultado.espaciamientoMaximoM = Entero(0)
               /\ resultado.espaciamientoLargoM = Entero(0)
               /\ resultado.espaciamientoAnchoM = Entero(0)
        /\ CoberturaDeLaBanda # 0 =>
               /\ resultado.valido = TRUE
               /\ resultado.coberturaMaximaM2 = CoberturaDeLaBanda

\* a detector of alturaMaxM 7.5 m with no coverage in band 1, at 7 m
C2_Testigo ==
    /\ Hecho
    /\ altura = Entero(7)
    /\ detectorElegido.alturaMaxM = Num(75, 10)
    /\ detectorElegido.coberturaMaxM2[2] = 0
    /\ EsRechazoNoAdecuado
    /\ ~resultado.valido

EsCuentaMinima(n, x, c) ==
    /\ n >= 1
    /\ x.num * x.num <= n * n * c * x.den * x.den
    /\ \A m \in 1..(n - 1) : x.num * x.num > m * m * c * x.den * x.den

C5_BandaPorAltura ==
    /\ obtenerRangoAltura(altura) = BandaDe(altura)
    /\ (Hecho /\ resultado.valido) =>
           resultado.coberturaMaximaM2 = CoberturaDeLaBanda

\* exactly 10 m is still band 2: the optical detector covers 60 m2 there
C5_Testigo ==
    /\ Hecho
    /\ resultado.valido
    /\ altura = Entero(10)
    /\ detectorElegido.coberturaMaxM2 = <<80, 80, 60, 40>>
    /\ resultado.coberturaMaximaM2 = 60

\* the original C6: no height of the first three bands is rejected as too
\* high, whatever the detector type of the shipped table
C6_Original ==
    (Hecho /\ tabla = tiposDetectores /\ MenorIgual(altura, Entero(10))) =>
        ~EsRechazoPorAltura

\* C6 (amended): for the detector types of the shipped table whose alturaMaxM
\* is at least 10 m, no height of the first three bands (0 < h <= 10) is
\* rejected as too high.
C6_SinRechazoBajoAlturaMaxima ==
    (/\ Hecho
     /\ tabla = tiposDetectores
     /\ MenorIgual(altura, Entero(10))
     /\ MenorIgual(Entero(10), detectorElegido.alturaMaxM)) =>
        ~EsRechazoPorAltura

\* the optical detector (alturaMaxM 12 m) accepted at 10 m, the top of band 2
C6_Testigo ==
    /\ Hecho
    /\ tabla = tiposDetectores
    /\ altura = Entero(10)
    /\ detectorElegido.alturaMaxM = Entero(12)
    /\ resultado.valido

EsRechazo == EsRechazoPorAltura \/ EsRechazoNoAdecuado

\* the fields both rejection paths set to 0, areaM2 aside
CamposCalculadosEnCero ==
    /\ resultado.numDetectoresMinimo = 0
    /\ resultado.coberturaMaximaM2 = 0
    /\ resultado.espaciamientoMaximoM = Entero(0)
    /\ resultado.numDetectoresReal = 0
    /\ resultado.detectoresLargo = 0
    /\ resultado.detectoresAncho = 0
    /\ resultado.espaciamientoLargoM = Entero(0)
    /\ resultado.espaciamientoAnchoM = Entero(0)
    /\ resultado.distanciaParedLargoM = Entero(0)
    /\ resultado.distanciaParedAnchoM = Entero(0)

\* the original C7: in both rejection paths every numeric field, the area
\* included, is 0
C7_Original ==
    (Hecho /\ EsRechazo) =>
        /\ resultado.areaM2 = Entero(0)
        /\ CamposCalculadosEnCero

\* C7 (amended): in both rejection paths every numeric field other than areaM2
\* is 0 (minimum count, coverage, maximum spacing, real count, both grid
\* counts, both spacings, both wall offsets), and areaM2 is the unrounded
\* product largoM * anchoM.
C7_RechazoEnCeroSalvoArea ==
    (Hecho /\ EsRechazo) =>
        /\ CamposCalculadosEnCero
        /\ resultado.areaM2 = Num(largo.num * ancho.num, largo.den * ancho.den)

\* a zero-coverage rejection whose area has more than 2 decimals
C7_Testigo ==
    /\ Hecho
    /\ EsRechazoNoAdecuado
    /\ CamposCalculadosEnCero
    /\ 100 % resultado.areaM2.den # 0

HayAdvertencia(plantilla) ==
    \E i \in 1..Len(resultado.advertencias) :
        resultado.advertencias[i].plantilla = plantilla

PlantillaAdvertenciaLargo == "Espaciamiento en largo (${}m) supera el maximo (${}m)"
PlantillaAdvertenciaAncho == "Espaciamiento en ancho (${}m) supera el maximo (${}m)"

\* each axis has its warning exactly when its full-precision spacing exceeds
\* 1.05 sqrt(coverage), and the list holds nothing else
AdvertenciasSegunTolerancia ==
    LET excedeLargo == ExcedeTolerancia(largo, resultado.detectoresLargo,
                                        resultado.coberturaMaximaM2)
        excedeAncho == ExcedeTolerancia(ancho, resultado.detectoresAncho,
                                        resultado.coberturaMaximaM2)
    IN  /\ HayAdvertencia(PlantillaAdvertenciaLargo) <=> excedeLargo
        /\ HayAdvertencia(PlantillaAdvertenciaAncho) <=> excedeAncho
        /\ Len(resultado.advertencias)
               = (IF excedeLargo THEN 1 ELSE 0) + (IF excedeAncho THEN 1 ELSE 0)

\* C8: a call that passes the height check and the zero-coverage check returns
\* valido = true with an empty mensaje whether or not a warning was appended,
\* and the warning of an axis is appended exactly when the full-precision
\* spacing of that axis exceeds 1.05 sqrt(coverage).
C8_AdvertenciasInformativas ==
    (/\ Hecho
     /\ MenorIgual(altura, detectorElegido.alturaMaxM)
     /\ CoberturaDeLaBanda # 0) =>
        /\ resultado.valido = TRUE
        /\ resultado.mensaje = [plantilla |-> "", args |-> <<>>]
        /\ AdvertenciasSegunTolerancia

\* an accepted result that carries the warning of the length axis only, for a
\* finite spacing
C8_Testigo ==
    /\ Hecho
    /\ resultado.valido
    /\ resultado.detectoresLargo # 0
    /\ HayAdvertencia(PlantillaAdvertenciaLargo)
    /\ ~HayAdvertencia(PlantillaAdvertenciaAncho)

\* n = ceil(p / q) for q > 0
EsTechoDeCociente(n, p, q) == (n - 1) * q < p /\ p <= n * q

\* C9: in every accepted result numDetectoresMinimo is ceil(largoM * anchoM /
\* coverage) of the unrounded area, and the grid does not follow it: each axis
\* count is ceil(side / sqrt(coverage)) of its own side, and numDetectoresReal
\* is their product.
C9_MinimoTeoricoSoloInformado ==
    (Hecho /\ resultado.valido) =>
        /\ EsTechoDeCociente(resultado.numDetectoresMinimo,
                             largo.num * ancho.num,
                             largo.den * ancho.den * resultado.coberturaMaximaM2)
        /\ EsTecho(resultado.detectoresLargo, largo, resultado.coberturaMaximaM2)
        /\ EsTecho(resultado.detectoresAncho, ancho, resultado.coberturaMaximaM2)
        /\ resultado.numDetectoresReal
               = resultado.detectoresLargo * resultado.detectoresAncho

\* an area of 20.00495 m2 under a coverage of 20 m2: the area output is 20.00,
\* the minimum is 2, and the grid holds more detectors than the minimum
C9_Testigo ==
    /\ Hecho
    /\ resultado.valido
    /\ resultado.coberturaMaximaM2 = 20
    /\ resultado.areaM2 = Entero(20)
    /\ resultado.numDetectoresMinimo = 2
    /\ resultado.numDetectoresReal > resultado.numDetectoresMinimo

\* d is p / q (q > 0) rounded to 2 decimals, halves upwards
EsRedondeoADosDecimales(d, p, q) ==
    /\ d.clase = "finito"
    /\ 100 % d.den = 0
    /\ LET k == d.num * (100 \div d.den)
       IN  (2 * k - 1) * q <= 200 * p /\ 200 * p < (2 * k + 1) * q

\* d is x / n / 2 rounded to 2 decimals (NaN and Infinity stay what they are)
EsMitadDelEspaciamiento(d, x, n) ==
    IF n > 0 THEN EsRedondeoADosDecimales(d, x.num, 2 * n * x.den)
    ELSE IF n < 0 THEN EsRedondeoADosDecimales(d, -x.num, 2 * (-n) * x.den)
    ELSE d.clase = (IF x.num = 0 THEN "NaN" ELSE "Infinity")

\* C10: in every accepted result the wall offset of an axis is the
\* full-precision spacing side / count, halved and then rounded to 2 decimals
\* (not half of the rounded spacing output), and the grid counts and the
\* warning test use the unrounded sqrt(coverage).
C10_IntermediosSinRedondear ==
    (Hecho /\ resultado.valido) =>
        /\ EsMitadDelEspaciamiento(resultado.distanciaParedLargoM, largo,
                                   resultado.detectoresLargo)
        /\ EsMitadDelEspaciamiento(resultado.distanciaParedAnchoM, ancho,
                                   resultado.detectoresAncho)
        /\ EsTecho(resultado.detectoresLargo, largo, resultado.coberturaMaximaM2)
        /\ EsTecho(resultado.detectoresAncho, ancho, resultado.coberturaMaximaM2)
        /\ AdvertenciasSegunTolerancia

\* a wall offset that half of the rounded spacing output would round
\* differently (9.5 m in three spans: 3.1666.. / 2 = 1.5833.. -> 1.58, but
\* 3.17 / 2 = 1.585 -> 1.59)
C10_Testigo ==
    /\ Hecho
    /\ resultado.valido
    /\ largo.num > 0
    /\ resultado.distanciaParedLargoM
           # Redondear2(Mitad(resultado.espaciamientoLargoM))

-----------------------------------------------------------------------------
(* Rounding of the outputs of calcularEspaciamientoDetectores.             *)

\* a finite number with at most 2 decimal digits
TieneDosDecimales(x) == x.clase = "finito" /\ 100 % x.den = 0

\* the outputs the return statement passes through Math.round(x * 100) / 100,
\* areaM2 aside
SalidasRedondeadas ==
    { resultado.espaciamientoMaximoM,
      resultado.espaciamientoLargoM, resultado.espaciamientoAnchoM,
      resultado.distanciaParedLargoM, resultado.distanciaParedAnchoM }

\* areaM2 is largoM * anchoM rounded to 2 decimals
AreaRedondeada ==
    EsRedondeoADosDecimales(resultado.areaM2, largo.num * ancho.num,
                            largo.den * ancho.den)

-----------------------------------------------------------------------------
(* Properties of calcularPerdidaCarga, stated on the PerdidaCarga form's   *)
(* fields (the arguments of the call) and the result it shows.             *)

\* the call of the PerdidaCarga form has returned
HechoPerdida == perdidaCarga.resultado # NULO

\* the limbs of a natural number
RECURSIVE Limbos(_)
Limbos(n) == IF n = 0 THEN <<>> ELSE <<n % Base>> \o Limbos(n \div Base)

\* d = k / potencia is the quotient a / b of two decimals (b > 0) rounded to
\* the nearest multiple of 1 / potencia, halves upwards:
\* (2k - 1) b <= 2 potencia a < (2k + 1) b
EsCocienteRedondeado(d, potencia, a, b) ==
    /\ d.clase = "finito"
    /\ d.num >= 0
    /\ potencia % d.den = 0
    /\ LET k == d.num * (potencia \div d.den)
           doble == ProdEntero(a, 2 * potencia)
       IN  /\ k = 0 \/ CompararN(ProdN(b, Limbos(2 * k - 1)), doble) <= 0
           /\ CompararN(doble, ProdN(b, Limbos(2 * k + 1))) < 0

\* Q = caudalLpm / 60000, D = diametroMm / 1000, the radius diametroMm / 2000,
\* L and C of the call
CaudalQ == Decimal(perdidaCarga.caudal.num, 60000 * perdidaCarga.caudal.den)
DiametroD == Decimal(perdidaCarga.diametro.num, 1000 * perdidaCarga.diametro.den)
RadioR == Decimal(perdidaCarga.diametro.num, 2000 * perdidaCarga.diametro.den)
LongitudL == Decimal(perdidaCarga.longitud.num, perdidaCarga.longitud.den)
CoeficienteHW == Decimal(perdidaCarga.coeficiente.num, perdidaCarga.coeficiente.den)

\* J = NumeradorJ / DenominadorJ = 10.67 Q^1.852 / (C^1.852 D^4.87)
NumeradorJ == MulD(Decimal(1067, 100), Pow(CaudalQ, Decimal(1852, 1000)))
DenominadorJ ==
    MulD(Pow(CoeficienteHW, Decimal(1852, 1000)), Pow(DiametroD, Decimal(487, 100)))

\* C14: perdidaPorMetro is the Hazen-Williams gradient
\* J = 10.67 Q^1.852 / (C^1.852 D^4.87), Q = caudalLpm / 60000 and
\* D = diametroMm / 1000, rounded to 4 decimals.
C14_GradienteHazenWilliams ==
    HechoPerdida =>
        EsCocienteRedondeado(perdidaCarga.resultado.perdidaPorMetro, 10000,
                             NumeradorJ, DenominadorJ)

\* 500 L/min in a 50 mm pipe of C = 120: J = 0.46011... -> 0.4601
C14_Testigo ==
    /\ HechoPerdida
    /\ perdidaCarga.caudal = Entero(500)
    /\ perdidaCarga.diametro = Entero(50)
    /\ perdidaCarga.coeficiente = Entero(120)
    /\ perdidaCarga.resultado.perdidaPorMetro = Num(4601, 10000)

\* C15: velocidadMs is the flow Q = caudalLpm / 60000 over the cross-section
\* pi (diametroMm / 2000)^2, rounded to 2 decimals.
C15_VelocidadPorSeccion ==
    HechoPerdida =>
        EsCocienteRedondeado(perdidaCarga.resultado.velocidadMs, 100,
                             CaudalQ, MulD(PI, MulD(RadioR, RadioR)))

\* 500 L/min in a 50 mm pipe: 4.2441... -> 4.24 m/s
C15_Testigo ==
    /\ HechoPerdida
    /\ perdidaCarga.caudal = Entero(500)
    /\ perdidaCarga.diametro = Entero(50)
    /\ perdidaCarga.resultado.velocidadMs = Num(424, 100)

\* C16: perdidaBar is J longitudM / 10.197 rounded to 3 decimals, J the
\* unrounded gradient (the rounding of perdidaPorMetro to 4 decimals does not
\* enter it).
C16_PerdidaBarSinRedondeoIntermedio ==
    HechoPerdida =>
        EsCocienteRedondeado(perdidaCarga.resultado.perdidaBar, 1000,
                             MulD(NumeradorJ, LongitudL),
                             MulD(DenominadorJ, Decimal(10197, 1000)))

\* the perdidaBar output is not what the perdidaPorMetro output gives:
\* 0.46011... * 100 / 10.197 -> 4.513, but 0.4601 * 100 / 10.197 -> 4.512
C16_Testigo ==
    /\ HechoPerdida
    /\ perdidaCarga.resultado.perdidaBar = Num(4513, 1000)
    /\ ~EsCocienteRedondeado(
            perdidaCarga.resultado.perdidaBar, 1000,
            MulD(Decimal(perdidaCarga.resultado.perdidaPorMetro.num,
                         perdidaCarga.resultado.perdidaPorMetro.den),
                 LongitudL),
            Decimal(10197, 1000))
    /\ EsCocienteRedondeado(
            Num(4512, 1000), 1000,
            MulD(Decimal(perdidaCarga.resultado.perdidaPorMetro.num,
                         perdidaCarga.resultado.perdidaPorMetro.den),
                 LongitudL),
            Decimal(10197, 1000))

\* C17: with caudalLpm = 0 (diametroMm > 0, longitudM >= 0, coeficienteC > 0)
\* perdidaBar, velocidadMs and perdidaPorMetro are all 0.
C17_CaudalNulo ==
    (/\ HechoPerdida
     /\ perdidaCarga.caudal.num = 0
     /\ perdidaCarga.diametro.num > 0
     /\ perdidaCarga.longitud.num >= 0
     /\ perdidaCarga.coeficiente.num > 0) =>
        /\ perdidaCarga.resultado.perdidaBar = Entero(0)
        /\ perdidaCarga.resultado.velocidadMs = Entero(0)
        /\ perdidaCarga.resultado.perdidaPorMetro = Entero(0)

\* no flow through a pipe of positive length
C17_Testigo ==
    /\ HechoPerdida
    /\ perdidaCarga.caudal.num = 0
    /\ perdidaCarga.longitud.num > 0
    /\ perdidaCarga.resultado.perdidaBar = Entero(0)
    /\ perdidaCarga.resultado.velocidadMs = Entero(0)
    /\ perdidaCarga.resultado.perdidaPorMetro = Entero(0)

\* the values of S next above x: monotonicity along these steps is
\* monotonicity on the whole of S
Siguientes(x, S) ==
    { y \in S : /\ Mayor(y, x)
                /\ \A z \in S : Mayor(z, x) => MenorIgual(y, z) }

\* the perdidaBar output of the call with the given fields
perdidaBarCon(caudal, diametro, longitud, coeficiente) ==
    calcularPerdidaCarga(parseFloat(caudal), parseFloat(diametro),
                         parseFloat(longitud), parseFloat(coeficiente)).perdidaBar

\* C18: the rounded perdidaBar does not decrease when caudalLpm grows with
\* the other arguments fixed, nor when longitudM grows with the other
\* arguments fixed.
C18_PerdidaCreceConCaudalYLongitud ==
    HechoPerdida =>
        /\ \A mayor \in Siguientes(perdidaCarga.caudal, Caudales) :
               MenorIgual(perdidaCarga.resultado.perdidaBar,
                          perdidaBarCon(mayor, perdidaCarga.diametro,
                                        perdidaCarga.longitud,
                                        perdidaCarga.coeficiente))
        /\ \A mayor \in Siguientes(perdidaCarga.longitud, Longitudes) :
               MenorIgual(perdidaCarga.resultado.perdidaBar,
                          perdidaBarCon(perdidaCarga.caudal, perdidaCarga.diametro,
                                        mayor, perdidaCarga.coeficiente))

\* a result with a positive loss, a greater flow and a greater length to
\* compare it with, the loss strictly greater with each
C18_Testigo ==
    /\ HechoPerdida
    /\ Mayor(perdidaCarga.resultado.perdidaBar, Entero(0))
    /\ \E mayor \in Siguientes(perdidaCarga.caudal, Caudales) :
           Mayor(perdidaBarCon(mayor, perdidaCarga.diametro, perdidaCarga.longitud,
                               perdidaCarga.coeficiente),
                 perdidaCarga.resultado.perdidaBar)
    /\ \E mayor \in Siguientes(perdidaCarga.longitud, Longitudes) :
           Mayor(perdidaBarCon(perdidaCarga.caudal, perdidaCarga.diametro, mayor,
                               perdidaCarga.coeficiente),
                 perdidaCarga.resultado.perdidaBar)

\* C19: the rounded perdidaBar does not increase when diametroMm grows with
\* the other arguments fixed, nor when coeficienteC grows with the other
\* arguments fixed.
C19_PerdidaDecreceConDiametroYCoeficiente ==
    HechoPerdida =>
        /\ \A mayor \in Siguientes(perdidaCarga.diametro, Diametros) :
               MenorIgual(perdidaBarCon(perdidaCarga.caudal, mayor,
                                        perdidaCarga.longitud,
                                        perdidaCarga.coeficiente),
                          perdidaCarga.resultado.perdidaBar)
        /\ \A mayor \in Siguientes(perdidaCarga.coeficiente, Coeficientes) :
               MenorIgual(perdidaBarCon(perdidaCarga.caudal, perdidaCarga.diametro,
                                        perdidaCarga.longitud, mayor),
                          perdidaCarga.resultado.perdidaBar)

\* a result with a positive loss, a wider pipe and a smoother one to compare
\* it with, the loss strictly smaller with each
C19_Testigo ==
    /\ HechoPerdida
    /\ Mayor(perdidaCarga.resultado.perdidaBar, Entero(0))
    /\ \E mayor \in Siguientes(perdidaCarga.diametro, Diametros) :
           Mayor(perdidaCarga.resultado.perdidaBar,
                 perdidaBarCon(perdidaCarga.caudal, mayor, perdidaCarga.longitud,
                               perdidaCarga.coeficiente))
    /\ \E mayor \in Siguientes(perdidaCarga.coeficiente, Coeficientes) :
           Mayor(perdidaCarga.resultado.perdidaBar,
                 perdidaBarCon(perdidaCarga.caudal, perdidaCarga.diametro,
                               perdidaCarga.longitud, mayor))

HechoCaudal == caudalRociadores.resultado # NULO

\* d = n / 10 is k sqrt(10 p) rounded to the nearest tenth, halves upwards,
\* for the fractions k and p: (2n - 1) / 20 <= k sqrt(10 p) < (2n + 1) / 20,
\* which between non-negative numbers is the same of the squares,
\* (2n - 1)^2 kd^2 pd <= 4000 kn^2 pn < (2n + 1)^2 kd^2 pd
EsRaizRedondeada(d, k, p) ==
    /\ d.clase = "finito"
    /\ d.num >= 0
    /\ 10 % d.den = 0
    /\ LET n == d.num * (10 \div d.den)
           divisor == Limbos(k.den * k.den * p.den)
           cuadrado == ProdN(Limbos(4000 * p.num), ProdN(Limbos(k.num), Limbos(k.num)))
           abajo == ProdN(ProdN(Limbos(2 * n - 1), Limbos(2 * n - 1)), divisor)
           arriba == ProdN(ProdN(Limbos(2 * n + 1), Limbos(2 * n + 1)), divisor)
       IN  /\ n = 0 \/ CompararN(abajo, cuadrado) <= 0
           /\ CompararN(cuadrado, arriba) < 0

Retornados ==
    { c \in Llamadores : llamadas[c].fase = "fuera" /\ llamadas[c].resultado # NULO }

Solo(funcion, parametros) ==
    CASE funcion = "calcularEspaciamientoDetectores" ->
             planificar(tiposDetectores[parametros[1].num + 1], parametros[2],
                        parametros[3], parametros[4])
      [] funcion = "calcularPerdidaCarga" ->
             calcularPerdidaCarga(parseFloat(parametros[1]), parseFloat(parametros[2]),
                                  parseFloat(parametros[3]), parseFloat(parametros[4]))
      [] funcion = "calcularCaudalRociador" ->
             calcularCaudalRociador(parseFloat(parametros[1]), parseFloat(parametros[2]))

ResultadosSolos ==
    { [funcion |-> i.funcion, parametros |-> i.parametros,
       resultado |-> Solo(i.funcion, i.parametros)] : i \in Invocaciones }

-----------------------------------------------------------------------------
(* C21: the 10 m x 10 m room under a 3 m ceiling.                          *)

\* the call of the scenario: table index 2 of the shipped table, 3 m, 10 m x 10 m
EsEscenario3 ==
    /\ tabla = tiposDetectores
    /\ tipoDetector = 2
    /\ altura = Entero(3)
    /\ largo = Entero(10)
    /\ ancho = Entero(10)

\* C21: for the detector of table index 2 (alturaMaxM 7.5, coverage
\* [30, 20, 0, 0]), a ceiling height of 3 m and a 10 m x 10 m room, the result
\* has coverage 30 (band 0), espaciamientoMaximoM 5.48, 2 detectors along each
\* axis, a real spacing of 5.0 m on both axes, valido = true and no warning.
C21_Escenario3 ==
    (Hecho /\ EsEscenario3) =>
        /\ detectorElegido.alturaMaxM = Num(75, 10)
        /\ detectorElegido.coberturaMaxM2 = <<30, 20, 0, 0>>
        /\ resultado.coberturaMaximaM2 = 30
        /\ resultado.espaciamientoMaximoM = Num(548, 100)
        /\ resultado.detectoresLargo = 2
        /\ resultado.detectoresAncho = 2
        /\ resultado.espaciamientoLargoM = Entero(5)
        /\ resultado.espaciamientoAnchoM = Entero(5)
        /\ resultado.valido = TRUE
        /\ resultado.advertencias = <<>>

C21_Testigo == Hecho /\ EsEscenario3 /\ resultado.numDetectoresReal = 4

-----------------------------------------------------------------------------
(* C22: the order of the two checks.                                       *)

\* the height is above the detector's alturaMaxM and the table entry of its
\* band is 0: both checks would reject
AmbosRechazos ==
    /\ Mayor(altura, detectorElegido.alturaMaxM)
    /\ CoberturaDeLaBanda = 0

\* C22: the height check takes precedence over the zero-coverage check: when
\* the height is above alturaMaxM and the coverage of the band is 0 as well,
\* the result is the height-exceeded rejection (valido = false, all counts 0,
\* the message of the height check), never the unsuitable-class rejection.
C22_AlturaAntesQueCobertura ==
    (Hecho /\ AmbosRechazos) =>
        /\ EsRechazoPorAltura
        /\ ~EsRechazoNoAdecuado
        /\ resultado.valido = FALSE
        /\ resultado.numDetectoresMinimo = 0
        /\ resultado.numDetectoresReal = 0
        /\ resultado.detectoresLargo = 0
        /\ resultado.detectoresAncho = 0

\* the detector of alturaMaxM 7.5 and coverage [30, 20, 0, 0] at 9 m
C22_Testigo ==
    /\ Hecho
    /\ AmbosRechazos
    /\ tabla = tiposDetectores
    /\ tipoDetector = 2
    /\ altura = Entero(9)
    /\ EsRechazoPorAltura

-----------------------------------------------------------------------------
(* C23: calcularPerdidaCarga(500, 50, 100, 120).                           *)

\* the call of the scenario: 500 L/min, 50 mm, 100 m, C = 120
EsEscenario1 ==
    /\ perdidaCarga.caudal = Entero(500)
    /\ perdidaCarga.diametro = Entero(50)
    /\ perdidaCarga.longitud = Entero(100)
    /\ perdidaCarga.coeficiente = Entero(120)

\* the statement as the specification has it: perdidaBar 0.313, velocidadMs
\* 0.71 and perdidaPorMetro 0.0031
C23_Original ==
    (HechoPerdida /\ EsEscenario1) =>
        /\ perdidaCarga.resultado.perdidaBar = Num(313, 1000)
        /\ perdidaCarga.resultado.velocidadMs = Num(71, 100)
        /\ perdidaCarga.resultado.perdidaPorMetro = Num(31, 10000)

\* C23: calcularPerdidaCarga(500, 50, 100, 120) returns perdidaBar = 4.513,
\* velocidadMs = 4.24 and perdidaPorMetro = 0.4601.
C23_Escenario1 ==
    (HechoPerdida /\ EsEscenario1) =>
        /\ perdidaCarga.resultado.perdidaBar = Num(4513, 1000)
        /\ perdidaCarga.resultado.velocidadMs = Num(424, 100)
        /\ perdidaCarga.resultado.perdidaPorMetro = Num(4601, 10000)

\* the velocity is the flow over the section of the 50 mm pipe:
\* (500 / 60000) / (pi 0.025^2) = 4.244..
C23_Testigo ==
    /\ HechoPerdida
    /\ EsEscenario1
    /\ EsCocienteRedondeado(perdidaCarga.resultado.velocidadMs, 100,
                            CaudalQ, MulD(PI, MulD(RadioR, RadioR)))
    /\ perdidaCarga.resultado.velocidadMs # Num(71, 100)

-----------------------------------------------------------------------------
(* C24: the shipped table never reaches the zero-coverage rejection.       *)

\* C24: with the six detector types of tiposDetectores, for every type and
\* every ceiling height h > 0 with h <= alturaMaxM the coverage at the band of
\* h is nonzero, so the unsuitable-class rejection is never returned and every
\* rejected result carries the height-exceeded message.
C24_RechazoNoAdecuadoInalcanzable ==
    (Hecho /\ tabla = tiposDetectores /\ altura.num > 0) =>
        /\ Len(tabla) = 6
        /\ MenorIgual(altura, detectorElegido.alturaMaxM) => CoberturaDeLaBanda # 0
        /\ ~EsRechazoNoAdecuado
        /\ ~resultado.valido => EsRechazoPorAltura

\* a thermal detector at its alturaMaxM of 7.5 m, in the last band where its
\* coverage is not 0, and accepted
C24_Testigo ==
    /\ Hecho
    /\ tabla = tiposDetectores
    /\ tipoDetector = 2
    /\ altura = detectorElegido.alturaMaxM
    /\ BandaDe(altura) = 1
    /\ detectorElegido.coberturaMaxM2[BandaDe(altura) + 2] = 0
    /\ resultado.valido
    /\ resultado.coberturaMaximaM2 = 20

-----------------------------------------------------------------------------
(* C25: the counts of an accepted result, on the doubles of the code.      *)

\* an accepted result for two positive sides
AceptadoConLadosPositivos ==
    /\ Hecho
    /\ resultado.valido
    /\ ~EsCero(largo)
    /\ ~EsCero(ancho)

\* 2^-500 m
LadoApreciable == Doble(Dos(52), -552)

\* the statement as the claim has it: for every accepted result with
\* largoM > 0 and anchoM > 0, detectoresLargo >= 1, detectoresAncho >= 1 and
\* numDetectoresReal >= numDetectoresMinimo >= 1
C25_Original ==
    AceptadoConLadosPositivos =>
        /\ resultado.detectoresLargo >= 1
        /\ resultado.detectoresAncho >= 1
        /\ resultado.numDetectoresReal >= resultado.numDetectoresMinimo
        /\ resultado.numDetectoresMinimo >= 1

\* C25: for every accepted result with largoM > 0 and anchoM > 0, the grid has
\* at most one detector fewer than the coverage minimum
\* (numDetectoresReal >= numDetectoresMinimo - 1); a side of at least 2^-500 m
\* gets at least one detector along it, and with both sides of at least
\* 2^-500 m numDetectoresMinimo >= 1.
C25_CuentasEnDoble ==
    AceptadoConLadosPositivos =>
        /\ resultado.numDetectoresReal >= resultado.numDetectoresMinimo - 1
        /\ ~MayorDoble(LadoApreciable, largo) => resultado.detectoresLargo >= 1
        /\ ~MayorDoble(LadoApreciable, ancho) => resultado.detectoresAncho >= 1
        /\ (~MayorDoble(LadoApreciable, largo) /\ ~MayorDoble(LadoApreciable, ancho))
               => resultado.numDetectoresMinimo >= 1

\* a room of Math.sqrt(80) m by Math.sqrt(80) m under a coverage of 80 m2: the
\* product of the sides rounds above 80, so the minimum is 2, and each side
\* is one maximum spacing, so the grid is the single detector
C25_Testigo ==
    /\ AceptadoConLadosPositivos
    /\ largo = RaizDoble(80)
    /\ ancho = RaizDoble(80)
    /\ resultado.coberturaMaximaM2 = 80
    /\ resultado.numDetectoresMinimo = 2
    /\ resultado.detectoresLargo = 1
    /\ resultado.detectoresAncho = 1
    /\ resultado.numDetectoresReal = 1

-----------------------------------------------------------------------------
(* C26: no warning for a room of positive sides.                           *)

\* C26: in exact arithmetic the tolerance warning never fires: for every call
\* with largoM > 0 and anchoM > 0, accepted or rejected, the returned
\* advertencias list is empty.
C26_SinAdvertenciasConLadosPositivos ==
    (Hecho /\ largo.num > 0 /\ ancho.num > 0) => resultado.advertencias = <<>>

\* an accepted room whose length is one maximum spacing exactly (5 m under a
\* coverage of 25 m2): the real spacing is at its maximum and within tolerance
C26_Testigo ==
    /\ Hecho
    /\ resultado.valido
    /\ largo.num > 0
    /\ ancho.num > 0
    /\ resultado.coberturaMaximaM2 = 25
    /\ resultado.detectoresLargo = 1
    /\ resultado.espaciamientoLargoM = resultado.espaciamientoMaximoM
    /\ resultado.advertencias = <<>>

-----------------------------------------------------------------------------
(* C27: the two axes are treated alike.                                    *)

\* the result of the same call with largoM and anchoM swapped
resultadoGirado == calcularEspaciamientoDetectores(tipoDetector, altura, ancho, largo)

\* C27: with largoM and anchoM swapped (same detector and height) the result
\* has detectoresLargo and detectoresAncho swapped, espaciamientoLargoM and
\* espaciamientoAnchoM swapped, distanciaParedLargoM and distanciaParedAnchoM
\* swapped, and areaM2, numDetectoresMinimo, numDetectoresReal,
\* coberturaMaximaM2, espaciamientoMaximoM, valido and mensaje unchanged.
C27_SimetriaDeEjes ==
    Hecho =>
        /\ resultadoGirado.detectoresLargo = resultado.detectoresAncho
        /\ resultadoGirado.detectoresAncho = resultado.detectoresLargo
        /\ resultadoGirado.espaciamientoLargoM = resultado.espaciamientoAnchoM
        /\ resultadoGirado.espaciamientoAnchoM = resultado.espaciamientoLargoM
        /\ resultadoGirado.distanciaParedLargoM = resultado.distanciaParedAnchoM
        /\ resultadoGirado.distanciaParedAnchoM = resultado.distanciaParedLargoM
        /\ resultadoGirado.areaM2 = resultado.areaM2
        /\ resultadoGirado.numDetectoresMinimo = resultado.numDetectoresMinimo
        /\ resultadoGirado.numDetectoresReal = resultado.numDetectoresReal
        /\ resultadoGirado.coberturaMaximaM2 = resultado.coberturaMaximaM2
        /\ resultadoGirado.espaciamientoMaximoM = resultado.espaciamientoMaximoM
        /\ resultadoGirado.valido = resultado.valido
        /\ resultadoGirado.mensaje = resultado.mensaje

\* an accepted room longer than wide, with different counts and spacings on
\* its two axes
C27_Testigo ==
    /\ Hecho
    /\ resultado.valido
    /\ largo.num > 0
    /\ ancho.num > 0
    /\ resultado.detectoresLargo > resultado.detectoresAncho
    /\ resultado.espaciamientoLargoM # resultado.espaciamientoAnchoM
    /\ resultadoGirado.detectoresAncho = resultado.detectoresLargo
    /\ resultadoGirado # resultado

-----------------------------------------------------------------------------
(* C28: a higher ceiling never needs fewer detectors.                      *)

\* the heights of the grid from the ceiling height up to the detector's alturaMaxM
AlturasMasAltas ==
    { h \in Alturas : /\ MenorIgual(altura, h)
                      /\ MenorIgual(h, detectorElegido.alturaMaxM) }

\* the result of the same call under a ceiling of height h
resultadoBajo(h) == calcularEspaciamientoDetectores(tipoDetector, h, largo, ancho)

\* C28: for each shipped detector type and a fixed room (of positive sides),
\* if h1 <= h2 <= alturaMaxM then the result at h2 is accepted like the one at
\* h1 and numDetectoresReal(h1) <= numDetectoresReal(h2) and
\* numDetectoresMinimo(h1) <= numDetectoresMinimo(h2).
C28_MasAlturaNoBajaLaCuenta ==
    (/\ Hecho
     /\ tabla = tiposDetectores
     /\ largo.num > 0
     /\ ancho.num > 0
     /\ MenorIgual(altura, detectorElegido.alturaMaxM)) =>
        \A h \in AlturasMasAltas :
            /\ resultado.valido
            /\ resultadoBajo(h).valido
            /\ resultado.numDetectoresReal <= resultadoBajo(h).numDetectoresReal
            /\ resultado.numDetectoresMinimo <= resultadoBajo(h).numDetectoresMinimo
            /\ resultado.coberturaMaximaM2 >= resultadoBajo(h).coberturaMaximaM2

\* a smoke detector at 6 m (coverage 80) in a room that needs more detectors
\* at 12 m (coverage 40), by the grid and by the coverage minimum
C28_Testigo ==
    /\ Hecho
    /\ tabla = tiposDetectores
    /\ tipoDetector = 0
    /\ altura = Entero(6)
    /\ largo.num > 0
    /\ ancho.num > 0
    /\ resultado.valido
    /\ Entero(12) \in AlturasMasAltas
    /\ resultado.numDetectoresReal < resultadoBajo(Entero(12)).numDetectoresReal
    /\ resultado.numDetectoresMinimo < resultadoBajo(Entero(12)).numDetectoresMinimo

-----------------------------------------------------------------------------
(* C29: one selection at a time in NormaViewer.                            *)

\* how many of the three selections are active: a section set, a curated
\* table set, the gallery open
SeleccionesActivas(v) ==
    (IF v.seccionActiva.hay THEN 1 ELSE 0)
    + (IF v.tablaTecnicaActiva.hay THEN 1 ELSE 0)
    + (IF v.galeriaActiva THEN 1 ELSE 0)

\* the step changes one of the three selections
CambiaSeleccion ==
    \/ normaViewer'.seccionActiva # normaViewer.seccionActiva
    \/ normaViewer'.tablaTecnicaActiva # normaViewer.tablaTecnicaActiva
    \/ normaViewer'.galeriaActiva # normaViewer.galeriaActiva

\* after the step exactly the section numero is active
SoloSeccion(numero) ==
    /\ normaViewer'.seccionActiva = Cadena(numero)
    /\ normaViewer'.tablaTecnicaActiva = Nulo
    /\ normaViewer'.galeriaActiva = FALSE

\* C29: after any sequence of handleSelectSeccion, handleSelectTablaTecnica
\* and handleSelectGaleria calls interleaved with runs of the effect, at most
\* one of (seccionActiva set, tablaTecnicaActiva set, galeriaActiva true)
\* holds; each handler activates its own selection and clears the other two;
\* and the effect changes a selection only when none of the three is active,
\* setting seccionActiva to the first purely numeric chapter of the norm.
C29_UnaSeleccionALaVez ==
    /\ [](SeleccionesActivas(normaViewer) <= 1)
    /\ [][\A numero \in NumerosDeSeccion :
              handleSelectSeccion(numero) => SoloSeccion(numero)]_vars
    /\ [][\A id \in IdsDeTabla :
              handleSelectTablaTecnica(id) =>
                  /\ normaViewer'.tablaTecnicaActiva = Cadena(id)
                  /\ normaViewer'.seccionActiva = Nulo
                  /\ normaViewer'.galeriaActiva = FALSE]_vars
    /\ [][handleSelectGaleria =>
              /\ normaViewer'.galeriaActiva = TRUE
              /\ normaViewer'.seccionActiva = Nulo
              /\ normaViewer'.tablaTecnicaActiva = Nulo]_vars
    /\ [][(efectoSeleccion /\ CambiaSeleccion) =>
              /\ SeleccionesActivas(normaViewer) = 0
              /\ \E i \in 1..Len(normaViewer.norma.secciones) :
                     /\ EsNumerico(normaViewer.norma.secciones[i])
                     /\ \A j \in 1..(i - 1) :
                            ~EsNumerico(normaViewer.norma.secciones[j])
                     /\ SoloSeccion(normaViewer.norma.secciones[i])]_vars

\* the effect has chosen chapter 0 of a norm whose file starts with an annex
\* section, and has run again without changing anything
C29_Testigo ==
    /\ normaViewer.norma.encontrada
    /\ Len(normaViewer.norma.secciones) > 2
    /\ ~EsNumerico(normaViewer.norma.secciones[1])
    /\ normaViewer.seccionActiva = Cadena(<<"0">>)
    /\ normaViewer.tablaTecnicaActiva = Nulo
    /\ ~normaViewer.galeriaActiva
    /\ ~normaViewer.efectoPendiente

-----------------------------------------------------------------------------
(* C30: when SearchBar shows its results.                                  *)

\* the query effect has run on the query the input holds
EfectoHecho == ~searchBar.efectoPendiente

ConsultaLarga == Len(searchBar.query) >= 2

\* the statement as the claim has it: once the query effect has run,
\* mostrarResultados is true whenever the input has focus and the query has
\* at least 2 characters, and false whenever the query has fewer than 2
C30_Original ==
    EfectoHecho =>
        /\ (searchBar.foco /\ ConsultaLarga) => searchBar.mostrarResultados
        /\ ~ConsultaLarga => ~searchBar.mostrarResultados

\* C30: once the query effect has run, mostrarResultados is false whenever the
\* query has fewer than 2 characters; with 2 characters or more the effect and
\* a focus event set it true, and afterwards only the firing of a blur timer
\* sets it false, which it does whether or not the input has focus again.
C30_ResultadosTrasElEfecto ==
    /\ []((EfectoHecho /\ ~ConsultaLarga) => ~searchBar.mostrarResultados)
    /\ [][(efectoConsulta /\ ConsultaLarga) => searchBar'.mostrarResultados]_vars
    /\ [][(onFocus /\ ConsultaLarga) => searchBar'.mostrarResultados]_vars
    /\ [][temporizador => ~searchBar'.mostrarResultados]_vars
    /\ [][(/\ EfectoHecho
           /\ ConsultaLarga
           /\ searchBar.mostrarResultados
           /\ ~searchBar'.mostrarResultados) =>
              searchBar'.temporizadores = searchBar.temporizadores - 1]_vars

\* the timer of an earlier blur has fired after the input took the focus
\* again: the query has 2 characters, the effect has run, no timer waits, and
\* the results are hidden
C30_Testigo ==
    /\ EfectoHecho
    /\ ConsultaLarga
    /\ searchBar.foco
    /\ searchBar.temporizadores = 0
    /\ ~searchBar.mostrarResultados

====
